---- MODULE Spec2Model ----
(***************************************************************************)
(* COMPAIR backend: the comparison cache (database/repository.py), the     *)
(* two-tier conversation store (utilities/storage.py) and the request      *)
(* handlers /compare, /ask-followup and /followup-history (main.py).       *)
(*                                                                         *)
(* Representation of Python values:                                        *)
(*   - an item name (str) is a tuple of one-character strings, so that     *)
(*     str.strip, str.lower and sorted() are computed character by         *)
(*     character;                                                          *)
(*   - every other str (category, message, budget, question ...) is a TLA+ *)
(*     string, and Python None in an Optional[str] position is Null;       *)
(*   - a list is a tuple and Python None in an Optional[List[str]]         *)
(*     position is NullList;                                               *)
(*   - a dict or an object is a function (record) and Python None in a     *)
(*     position that otherwise holds one is None;                          *)
(*   - datetimes are integers counting hours.                              *)
(***************************************************************************)
EXTENDS Integers, Sequences, FiniteSets, TLC

VARIABLES
    now,                  \* datetime.utcnow(), in hours
    llm,                  \* main.py: TRUE iff the ChatOpenAI client was built
    comparison_cache,     \* table comparison_cache, in the backend's scan order
    conversation_memory,  \* storage.py: conversation_memory, id -> session dict
    conversations,        \* table conversations, in the backend's scan order
    nextId,               \* number of uuid4() values drawn so far, plus one
    shared_comparisons,   \* table shared_comparisons, in the backend's scan order
    share_requests,       \* worker -> the GET /shared request it is serving
    retrievals,           \* share_id -> number of retrievals answered with 200
    users,                \* table users: the ids of its rows
    comparisons,          \* table comparisons, in the order of insertion
    item_table,           \* table items: name -> category and comparison_count
    compare_requests,     \* worker -> the /compare request it is serving
    last                  \* the call or request handled last, with its outcome

vars == <<now, llm, comparison_cache, conversation_memory, conversations,
          nextId, shared_comparisons, share_requests, retrievals, users,
          comparisons, item_table, compare_requests, last>>

\* the state of the shares, which only the share handlers change
shareVars == <<shared_comparisons, share_requests, retrievals>>

\* the state of the saved history, which only the history handlers change
historyVars == <<users, comparisons, item_table>>

\* the /compare requests under way, which only their own steps change
compareVars == <<compare_requests>>

None == [none |-> TRUE]
Null == "None"
NullList == <<Null>>

----------------------------------------------------------------------------
(* Bounds *)

MaxCache == 2
MaxIds == 2
MaxMessages == 4
MaxConversations == 1
MaxItems == 2
MaxWorkers == 2
MaxRetrievals == 3
MaxClock == 48
ClockStep == 24

----------------------------------------------------------------------------
(* Strings: str.lower, str.strip, the order of sorted() *)

Ord ==
    (" " :> 32) @@
    ("A" :> 65) @@ ("B" :> 66) @@ ("C" :> 67) @@ ("D" :> 68) @@
    ("a" :> 97) @@ ("b" :> 98) @@ ("c" :> 99) @@ ("d" :> 100) @@
    ("e" :> 101) @@ ("h" :> 104) @@ ("n" :> 110) @@ ("o" :> 111) @@
    ("p" :> 112) @@ ("x" :> 120)

Chars == DOMAIN Ord

IsSpace(c) == c = " "

LowerChar(c) ==
    IF Ord[c] >= 65 /\ Ord[c] <= 90
    THEN CHOOSE d \in Chars : Ord[d] = Ord[c] + 32
    ELSE c

lower(s) == [i \in 1..Len(s) |-> LowerChar(s[i])]

RECURSIVE lstrip(_)
lstrip(s) ==
    IF s # <<>> /\ IsSpace(Head(s)) THEN lstrip(Tail(s)) ELSE s

RECURSIVE rstrip(_)
rstrip(s) ==
    IF s # <<>> /\ IsSpace(s[Len(s)])
    THEN rstrip(SubSeq(s, 1, Len(s) - 1))
    ELSE s

strip(s) == rstrip(lstrip(s))

\* s < t for two str values: lexicographic by code point
RECURSIVE StrLess(_, _)
StrLess(s, t) ==
    IF t = <<>> THEN FALSE
    ELSE IF s = <<>> THEN TRUE
    ELSE IF Ord[Head(s)] # Ord[Head(t)] THEN Ord[Head(s)] < Ord[Head(t)]
    ELSE StrLess(Tail(s), Tail(t))

RECURSIVE InsertSorted(_, _)
InsertSorted(x, l) ==
    IF l = <<>> THEN <<x>>
    ELSE IF StrLess(x, Head(l)) THEN <<x>> \o l
    ELSE <<Head(l)>> \o InsertSorted(x, Tail(l))

\* the list in the order given
sorted_as_given(l) == l

\* sorted(l): a stable sort into ascending order
RECURSIVE sorted(_)
sorted(l) ==
    IF l = <<>> THEN <<>>
    ELSE InsertSorted(l[Len(l)], sorted(SubSeq(l, 1, Len(l) - 1)))

----------------------------------------------------------------------------
(* The comparison cache: database/repository.py *)

EmptyDict == <<>>

\* Python truthiness of an Optional[dict]
TruthyDict(d) == d # None /\ d # EmptyDict

\* normalize_items with .lower() left out
normalize_items_no_lower(items) ==
    sorted([i \in 1..Len(items) |-> strip(items[i])])

\* repository.py:267 and :317
normalize_items(items) ==
    sorted([i \in 1..Len(items) |-> strip(lower(items[i]))])

\* the preferences left out of the key
normalize_prefs_ignored(user_preferences) == EmptyDict

\* repository.py:268 and :318
normalize_prefs(user_preferences) ==
    IF TruthyDict(user_preferences) THEN user_preferences ELSE EmptyDict

\* the filter of the query: category, items and user_preferences all equal
CacheMatches(c, category, normalized_items, normalized_prefs) ==
    /\ c.category = category
    /\ c.items = normalized_items
    /\ c.user_preferences = normalized_prefs

MatchingRows(cache, category, items, user_preferences) ==
    { i \in 1..Len(cache) :
        CacheMatches(cache[i], category, normalize_items(items),
                     normalize_prefs(user_preferences)) }

\* .first(): the first matching row in scan order, 0 when there is none
FirstMatch(cache, category, items, user_preferences) ==
    LET m == MatchingRows(cache, category, items, user_preferences)
    IN IF m = {} THEN 0 ELSE CHOOSE i \in m : \A j \in m : i <= j

RemoveAt(s, i) == SubSeq(s, 1, i - 1) \o SubSeq(s, i + 1, Len(s))

InsertAt(s, i, x) == SubSeq(s, 1, i - 1) \o <<x>> \o SubSeq(s, i, Len(s))

\* expired from the instant expires_at on
Expired_at_or_before(c, t) == c.expires_at <= t

\* cache.expires_at and cache.expires_at < datetime.utcnow(); expires_at is
\* never NULL, cache_comparison (the only writer) always sets it
Expired(c, t) == c.expires_at < t

\* the lookup that leaves an expired row in the table
get_cached_comparison_keep_expired(cache, t, category, items, user_preferences) ==
    LET i == FirstMatch(cache, category, items, user_preferences)
    IN IF i = 0 \/ Expired(cache[i], t) THEN [cache |-> cache, row |-> None]
       ELSE [cache |-> cache, row |-> cache[i]]

\* get_cached_comparison: the table afterwards and the row returned
get_cached_comparison(cache, t, category, items, user_preferences) ==
    LET i == FirstMatch(cache, category, items, user_preferences)
    IN IF i = 0 THEN [cache |-> cache, row |-> None]
       ELSE IF Expired(cache[i], t)
            THEN [cache |-> RemoveAt(cache, i), row |-> None]
            ELSE [cache |-> cache, row |-> cache[i]]

\* the lookup that finds nothing, whatever the table holds
get_cached_comparison_result_miss(cache, t, category, items, user_preferences) ==
    [cache |-> cache, result |-> None]

\* storage.py: get_cached_comparison_result
get_cached_comparison_result(cache, t, category, items, user_preferences) ==
    LET r == get_cached_comparison(cache, t, category, items, user_preferences)
    IN [cache |-> r.cache,
        result |-> IF r.row # None THEN r.row.result ELSE None]

\* the row cache_comparison adds
NewCacheRow(t, category, items, result, user_preferences, expires_in_hours) ==
    [category |-> category,
     items |-> normalize_items(items),
     user_preferences |-> normalize_prefs(user_preferences),
     result |-> result,
     expires_at |-> t + expires_in_hours]

Min(a, b) == IF a <= b THEN a ELSE b

\* a row with the key of the new one is replaced by it
cache_comparison_replace(cache, pos, t, category, items, result, user_preferences, expires_in_hours) ==
    LET row == NewCacheRow(t, category, items, result, user_preferences,
                           expires_in_hours)
        i == FirstMatch(cache, category, items, user_preferences)
    IN IF i = 0 THEN InsertAt(cache, Min(pos, Len(cache) + 1), row)
       ELSE [cache EXCEPT ![i] = row]

\* cache_comparison: always one more row. pos is the place the backend gives
\* the row in the scan order of later queries (no query states an ORDER BY);
\* a pos past the end is the end.
cache_comparison(cache, pos, t, category, items, result, user_preferences, expires_in_hours) ==
    InsertAt(cache, Min(pos, Len(cache) + 1),
             NewCacheRow(t, category, items, result, user_preferences,
                         expires_in_hours))

\* cleanup_expired_cache: the table afterwards and the number deleted
RECURSIVE KeepUnexpired(_, _)
KeepUnexpired(cache, t) ==
    IF cache = <<>> THEN <<>>
    ELSE IF Expired(Head(cache), t) THEN KeepUnexpired(Tail(cache), t)
    ELSE <<Head(cache)>> \o KeepUnexpired(Tail(cache), t)

cleanup_expired_cache(cache, t) ==
    [cache |-> KeepUnexpired(cache, t),
     deleted |-> Len(cache) - Len(KeepUnexpired(cache, t))]

----------------------------------------------------------------------------
(* Inputs of the cache operations *)

Str_ab == <<"a", "b">>
Str_cd == <<"c", "d">>
Str_ce == <<"c", "e">>
Str_Ab_ == <<"A", "b", " ">>
Str__Cd == <<" ", "C", "d">>

\* two spellings of one item set, and (for lookups) another item set
StoreItemLists == { <<Str_ab, Str_cd>>, <<Str__Cd, Str_Ab_>> }
LookupItemLists == StoreItemLists \cup { <<Str_ab, Str_ce>> }

Categories == {"Gadgets", "Cars"}
CacheCategories == {"Gadgets"}

\* UserPreferences.dict(): always the three keys
Prefs(priorities, budget, use_case) ==
    [priorities |-> priorities, budget |-> budget, use_case |-> use_case]

NoPrefs == Prefs(NullList, Null, Null)
PricePrefs == Prefs(<<"price">>, Null, Null)

StorePrefs == {None, PricePrefs}
LookupPrefs == StorePrefs \cup {EmptyDict}

\* ComparisonOutput.dict(): introduction stands for the five content fields
\* (introduction, table, pros, cons, recommendation), which no code reads
Payload(introduction, personalized_winner, winner_reason, message) ==
    [introduction |-> introduction,
     personalized_winner |-> personalized_winner,
     winner_reason |-> winner_reason,
     message |-> message]

CacheResults ==
    { Payload("first", Null, Null, Null), Payload("second", Null, Null, Null) }

\* expires_in_hours: the default of cache_comparison, and 0
DefaultTtlHours == 24
TtlChoices == {0, DefaultTtlHours}

----------------------------------------------------------------------------
(* The cache operations as steps: SpecCache *)

\* a fresh database and a freshly started process
Fresh ==
    /\ now = 0
    /\ comparison_cache = <<>>
    /\ conversation_memory = <<>>
    /\ conversations = <<>>
    /\ nextId = 1
    /\ shared_comparisons = <<>>
    /\ share_requests = [w \in 1..MaxWorkers |-> [pc |-> "idle"]]
    /\ retrievals = [share_id \in 1..MaxIds |-> 0]
    /\ users = {}
    /\ comparisons = <<>>
    /\ item_table = <<>>
    /\ compare_requests = [w \in 1..MaxWorkers |-> [pc |-> "idle"]]
    /\ last = [op |-> "init"]

InitCache == Fresh /\ llm = TRUE

\* storage.py: save_cached_comparison -> repository.py: cache_comparison
Store(category, items, result, user_preferences, expires_in_hours) ==
    /\ Len(comparison_cache) < MaxCache
    /\ \E pos \in 1..(Len(comparison_cache) + 1) :
           comparison_cache' =
               cache_comparison(comparison_cache, pos, now, category, items,
                                result, user_preferences, expires_in_hours)
    /\ last' = [op |-> "store", category |-> category, items |-> items,
                user_preferences |-> user_preferences, result |-> result,
                expires_at |-> now + expires_in_hours]
    /\ UNCHANGED <<now, llm, conversation_memory, conversations, nextId,
                   shareVars, historyVars, compareVars>>

\* storage.py: get_cached_comparison_result
Lookup(category, items, user_preferences) ==
    \E r \in {get_cached_comparison_result(comparison_cache, now, category,
                                            items, user_preferences)} :
       /\ comparison_cache' = r.cache
       /\ last' = [op |-> "lookup", category |-> category, items |-> items,
                   user_preferences |-> user_preferences,
                   result |-> r.result,
                   after |-> IF last.op = "store" THEN last
                             ELSE [op |-> last.op]]
       /\ UNCHANGED <<now, llm, conversation_memory, conversations, nextId,
                      shareVars, historyVars, compareVars>>

\* repository.py: cleanup_expired_cache
SweepExpired ==
    \E r \in {cleanup_expired_cache(comparison_cache, now)} :
       /\ comparison_cache' = r.cache
       /\ last' = [op |-> "sweep", deleted |-> r.deleted]
       /\ UNCHANGED <<now, llm, conversation_memory, conversations, nextId,
                      shareVars, historyVars, compareVars>>

\* time passes
Tick ==
    /\ now + ClockStep <= MaxClock
    /\ now' = now + ClockStep
    /\ last' = [op |-> "tick"]
    /\ UNCHANGED <<llm, comparison_cache, conversation_memory, conversations,
                   nextId, shareVars, historyVars, compareVars>>

StoreStep ==
    \E category \in CacheCategories, items \in StoreItemLists,
       result \in CacheResults, user_preferences \in StorePrefs,
       expires_in_hours \in TtlChoices :
        Store(category, items, result, user_preferences, expires_in_hours)

LookupStep ==
    \E category \in Categories, items \in LookupItemLists,
       user_preferences \in LookupPrefs :
        Lookup(category, items, user_preferences)

NextCache == StoreStep \/ LookupStep \/ SweepExpired \/ Tick

SpecCache == InitCache /\ [][NextCache]_vars

----------------------------------------------------------------------------
(* POST /compare: main.py, compare_items *)

MIN_ITEMS_TO_COMPARE == 2
MIN_ITEM_LENGTH == 2

MSG_TOO_FEW == "Please provide at least 2 items to compare."
MSG_UNCLEAR == "Please enter clear, distinct, and comparable items."
MSG_IDENTICAL == "Please enter different items to compare."
LLM_UNAVAILABLE ==
    "LLM service is not available. Please set OPENAI_API_KEY environment variable."

\* no str counts as set
TruthyStr_never(x) == FALSE

\* Python truthiness of an Optional[str] and of an Optional[List[str]]
TruthyStr(x) == x # Null /\ x # ""
TruthyList(x) == x # NullList /\ x # <<>>

\* a returned dict, and a raised HTTPException
Ok(body) == [status |-> 200, body |-> body]
HttpError(status_code, detail) == [status |-> status_code, detail |-> detail]

\* main.py:174: not data.items or len(data.items) < MIN_ITEMS_TO_COMPARE
TooFewItems(items) == items = <<>> \/ Len(items) < MIN_ITEMS_TO_COMPARE

\* main.py:180: any(len(item.strip()) < MIN_ITEM_LENGTH for item in data.items)
AnyItemTooShort(items) ==
    \E i \in 1..Len(items) : Len(strip(items[i])) < MIN_ITEM_LENGTH

\* the comparison of line 188 without the lower() of line 187
HasIdenticalItems_case_sensitive(items) ==
    LET items_stripped == [i \in 1..Len(items) |-> strip(items[i])]
    IN Len(items_stripped)
           # Cardinality({ items_stripped[i] : i \in 1..Len(items) })

\* main.py:187-188: len(items_lower) != len(set(items_lower))
HasIdenticalItems(items) ==
    LET items_lower == [i \in 1..Len(items) |-> lower(strip(items[i]))]
    IN Len(items_lower) # Cardinality({ items_lower[i] : i \in 1..Len(items) })

\* the checks of lines 180 and 188 in the other order
ValidationMessage_identical_first(items) ==
    IF TooFewItems(items) THEN MSG_TOO_FEW
    ELSE IF HasIdenticalItems(items) THEN MSG_IDENTICAL
    ELSE IF AnyItemTooShort(items) THEN MSG_UNCLEAR
    ELSE Null

\* no input check rejects
ValidationMessage_none(items) == Null

\* main.py:173-192: the message of the first check that fails, Null if none
ValidationMessage(items) ==
    IF TooFewItems(items) THEN MSG_TOO_FEW
    ELSE IF AnyItemTooShort(items) THEN MSG_UNCLEAR
    ELSE IF HasIdenticalItems(items) THEN MSG_IDENTICAL
    ELSE Null

\* any preferences object counts, whatever its fields hold
has_preferences_any_object(user_preferences) == user_preferences # None

\* main.py:205-219
has_preferences(user_preferences) ==
    /\ user_preferences # None
    /\ \/ TruthyList(user_preferences.priorities)
          /\ Len(user_preferences.priorities) > 0
       \/ TruthyStr(user_preferences.budget)
       \/ TruthyStr(user_preferences.use_case)

\* main.py:286-290
WithoutWinner(result_dict) ==
    [result_dict EXCEPT !.personalized_winner = Null, !.winner_reason = Null]

EnsureNoWinner(result_dict, has_prefs) ==
    IF ~has_prefs THEN WithoutWinner(result_dict) ELSE result_dict

\* the items as the cache stores them in place of the request's
WithMetadata_stored_items(result_dict, comparison_id, items, category) ==
    [k \in DOMAIN result_dict \cup {"comparison_id", "items", "category"} |->
        IF k = "comparison_id" THEN comparison_id
        ELSE IF k = "items" THEN normalize_items(items)
        ELSE IF k = "category" THEN category
        ELSE result_dict[k]]

\* main.py:200-202 and :309-311: the three keys set on the dict returned
WithMetadata(result_dict, comparison_id, items, category) ==
    [k \in DOMAIN result_dict \cup {"comparison_id", "items", "category"} |->
        IF k = "comparison_id" THEN comparison_id
        ELSE IF k = "items" THEN items
        ELSE IF k = "category" THEN category
        ELSE result_dict[k]]

\* the exception's text answered as a normal {message} response
CompareFailed_as_message(e) == [status |-> 200, body |-> [message |-> e]]

\* main.py:316-318: every exception raised in the body, an HTTPException
\* included, is caught and raised again with status 500
CompareFailed(e) ==
    HttpError(500, <<"Comparison failed: ", e>>)

\* str(HTTPException(status_code, detail))
HttpErrorStr(status_code, detail) == <<ToString(status_code), ": ", detail>>

\* parser.parse(llm_response.content) raised
Malformed == [malformed |-> TRUE]

\* main.py:301-306; original_comparison is result_dict itself, the object
\* that lines 309-311 then extend
NewSession(result_dict, items, category) ==
    [chat_history |-> <<>>,
     original_comparison |-> result_dict,
     items |-> items,
     category |-> category]

\* brave_search.py:61-109: the search data of one item; a timeout of
\* requests.get is a RequestException, caught at line 104, and gives None
search_item(outcome) ==
    IF outcome = "timeout" THEN None
    ELSE [query |-> "q", summary |-> outcome]

\* brave_search.py:112-128: outcomes[i] is how the request for items[i] ends
search_items(items, outcomes) ==
    [i \in 1..Len(items) |-> search_item(outcomes[i])]

\* brave_search.py:141-142: no text when no item has search data
format_search_results_for_prompt(search_results) ==
    IF \A i \in 1..Len(search_results) : search_results[i] = None
    THEN "" ELSE "search results"

\* main.py:232-314, after a cache miss: search_out is how the searches end,
\* llm_out is what llm.invoke and parser.parse produce. Gives the response,
\* the cache and the sessions afterwards, the ids drawn, the collaborators
\* called, in order, and the search text put in the prompt.
CompareMiss(cache, memory, t, id, llmAvailable, pos, category, items, user_preferences, search_out, llm_out) ==
    LET search_results_text ==
            format_search_results_for_prompt(search_items(items, search_out))
        unchanged(resp, trace) ==
            [resp |-> resp, cache |-> cache, memory |-> memory,
             ids |-> 0, trace |-> trace,
             search_results_text |-> search_results_text]
    IN
    IF ~llmAvailable
    THEN unchanged(CompareFailed(HttpErrorStr(503, LLM_UNAVAILABLE)),
                   <<"cache_read", "search">>)
    ELSE IF llm_out = Malformed
    THEN unchanged(CompareFailed(<<"OutputParserException">>),
                   <<"cache_read", "search", "llm">>)
    ELSE IF TruthyStr(llm_out.message)
    THEN unchanged(Ok(llm_out), <<"cache_read", "search", "llm">>)
    ELSE
    LET result_dict == EnsureNoWinner(llm_out, has_preferences(user_preferences))
        returned == WithMetadata(result_dict, id, items, category)
    IN [resp |-> Ok(returned),
        cache |-> cache_comparison(cache, pos, t, category, items,
                                   result_dict, user_preferences,
                                   DefaultTtlHours),
        memory |-> (id :> NewSession(returned, items, category)) @@ memory,
        ids |-> 1,
        trace |-> <<"cache_read", "search", "llm", "cache_write", "session">>,
        search_results_text |-> search_results_text]

\* main.py:166-318
compare_items(cache, memory, t, id, llmAvailable, pos, category, items, user_preferences, search_out, llm_out) ==
    IF ValidationMessage(items) # Null
    THEN [resp |-> Ok([message |-> ValidationMessage(items)]),
          cache |-> cache, memory |-> memory, ids |-> 0, trace |-> <<>>,
          search_results_text |-> Null]
    ELSE
    LET r == get_cached_comparison_result(cache, t, category, items,
                                          user_preferences)
    IN IF r.result # None
       THEN [resp |-> Ok(WithMetadata(r.result, id, items, category)),
             cache |-> r.cache, memory |-> memory, ids |-> 1,
             trace |-> <<"cache_read">>, search_results_text |-> Null]
       ELSE CompareMiss(r.cache, memory, t, id, llmAvailable, pos,
                        category, items, user_preferences, search_out,
                        llm_out)

HasEvent(trace, e) == \E i \in 1..Len(trace) : trace[i] = e

\* every draw gives the same value
uuid4_repeated(n) == 1

\* main.py:200 and :293: str(uuid.uuid4()), the n-th value drawn; no two
\* draws give the same value
uuid4(n) == n

\* the collaborators the handler calls for this request in this state
\* when every search answers and the LLM's output is llm_out
CallsOf(category, items, user_preferences, llm_out) ==
    compare_items(comparison_cache, conversation_memory, now, uuid4(nextId),
                  llm, 1, category, items, user_preferences,
                  [i \in 1..Len(items) |-> "results"], llm_out).trace

\* the place of the new row matters only when a row is written
Compare(category, items, user_preferences, search_out, llm_out) ==
    /\ nextId <= MaxIds
    /\ \E pos \in IF HasEvent(CallsOf(category, items, user_preferences,
                                       llm_out), "cache_write")
                   THEN 1..(Len(comparison_cache) + 1) ELSE {1} :
         \E r \in {compare_items(comparison_cache, conversation_memory, now,
                                  uuid4(nextId), llm, pos,
                                  category, items, user_preferences,
                                  search_out, llm_out)} :
            /\ Len(r.cache) <= MaxCache
            /\ comparison_cache' = r.cache
            /\ conversation_memory' = r.memory
            /\ nextId' = nextId + r.ids
            /\ last' = [op |-> "compare", category |-> category,
                        items |-> items,
                        user_preferences |-> user_preferences,
                        search_out |-> IF HasEvent(r.trace, "search")
                                       THEN search_out ELSE <<>>,
                        search_results_text |-> r.search_results_text,
                        llm_out |-> IF HasEvent(r.trace, "llm")
                                    THEN llm_out ELSE None,
                        resp |-> r.resp, trace |-> r.trace]
    /\ UNCHANGED <<now, llm, conversations, shareVars, historyVars,
                   compareVars>>

----------------------------------------------------------------------------
(* The conversation store: repository.py and storage.py *)

\* .first() of all rows, without the filter on comparison_id
FirstConversation_any_id(convs, comparison_id) ==
    IF convs = <<>> THEN 0 ELSE 1

\* get_conversation: .first() of the rows with this comparison_id, 0 if none
FirstConversation(convs, comparison_id) ==
    LET m == { i \in 1..Len(convs) : convs[i].comparison_id = comparison_id }
    IN IF m = {} THEN 0 ELSE CHOOSE i \in m : \A j \in m : i <= j

\* storage.py: get_conversation_from_db
get_conversation_from_db(convs, comparison_id) ==
    LET i == FirstConversation(convs, comparison_id)
    IN IF i = 0 THEN None
       ELSE [comparison_id |-> convs[i].comparison_id,
             messages |-> convs[i].messages,
             original_comparison |-> convs[i].original_comparison,
             items |-> convs[i].items,
             category |-> convs[i].category]

\* repository.py: create_conversation, through storage.save_conversation_to_db
create_conversation(convs, comparison_id, original_comparison, items, category) ==
    convs \o <<[comparison_id |-> comparison_id,
                messages |-> <<>>,
                original_comparison |-> original_comparison,
                items |-> items,
                category |-> category]>>

Message(role, content, t) ==
    [role |-> role, content |-> content, timestamp |-> t]

\* repository.py: add_message_to_conversation, through
\* storage.add_conversation_message. No row: nothing is written. messages is
\* a plain JSON column (models.py:109), which does not track a change made in
\* place: when the stored list is empty, line 241 assigns a new list, the
\* attribute counts as changed and commit writes the list with the message
\* appended; when it is not empty, line 243 appends to the loaded list in
\* place, commit writes updated_at alone and refresh (line 250) loads the
\* stored list again.
add_message_to_conversation(convs, t, comparison_id, role, content) ==
    LET i == FirstConversation(convs, comparison_id)
    IN IF i = 0 THEN convs
       ELSE IF convs[i].messages = <<>>
            THEN [convs EXCEPT ![i].messages = <<Message(role, content, t)>>]
            ELSE convs

----------------------------------------------------------------------------
(* POST /ask-followup and GET /followup-history: main.py *)

FOLLOWUP_NOT_FOUND == "Comparison not found. Please create a comparison first."
HISTORY_NOT_FOUND == "Comparison not found"

\* followup_chain.invoke raised
LlmError == [error |-> TRUE]

\* main.py:391-403: the session of the fast tier, else the conversation of
\* the durable tier, else None
ResolveContext(memory, convs, comparison_id) ==
    IF comparison_id \in DOMAIN memory
    THEN [original_comparison |-> memory[comparison_id].original_comparison,
          items |-> memory[comparison_id].items,
          category |-> memory[comparison_id].category]
    ELSE LET db_conversation == get_conversation_from_db(convs, comparison_id)
         IN IF db_conversation # None
            THEN [original_comparison |-> db_conversation.original_comparison,
                  items |-> db_conversation.items,
                  category |-> db_conversation.category,
                  messages |-> db_conversation.messages]
            ELSE None

\* ChatMessageHistory.add_user_message, add_ai_message
HumanMessage(content) == [type |-> "human", content |-> content]
AIMessage(content) == [type |-> "ai", content |-> content]

\* a session is made in the fast tier when it holds none for the id
UpdateMemory_write_back(memory, comparison_id, question, answer) ==
    LET held == IF comparison_id \in DOMAIN memory
                THEN memory
                ELSE (comparison_id :> NewSession(<<>>, <<>>, Null)) @@ memory
    IN [held EXCEPT ![comparison_id].chat_history =
            @ \o <<HumanMessage(question), AIMessage(answer)>>]

\* the answer is put in the transcript before the question
UpdateMemory_answer_first(memory, comparison_id, question, answer) ==
    IF comparison_id \in DOMAIN memory
    THEN [memory EXCEPT ![comparison_id].chat_history =
              @ \o <<AIMessage(answer), HumanMessage(question)>>]
    ELSE memory

\* the follow-up writes its answer into the payload of the session
UpdateMemory_touch_payload(memory, comparison_id, question, answer) ==
    IF comparison_id \in DOMAIN memory
    THEN [memory EXCEPT
              ![comparison_id].chat_history =
                  @ \o <<HumanMessage(question), AIMessage(answer)>>,
              ![comparison_id].original_comparison.introduction = answer]
    ELSE memory

\* the session is dropped once its follow-up is answered
UpdateMemory_evict(memory, comparison_id, question, answer) ==
    [id \in DOMAIN memory \ {comparison_id} |-> memory[id]]

\* main.py:438-442: the in-memory transcript is extended only when the fast
\* tier holds the id
UpdateMemory(memory, comparison_id, question, answer) ==
    IF comparison_id \in DOMAIN memory
    THEN [memory EXCEPT ![comparison_id].chat_history =
              @ \o <<HumanMessage(question), AIMessage(answer)>>]
    ELSE memory

\* main.py:434-436
SaveToDatabase(convs, t, comparison_id, question, answer) ==
    add_message_to_conversation(
        add_message_to_conversation(convs, t, comparison_id, "user", question),
        t, comparison_id, "assistant", answer)

\* main.py:443-447
ConversationHistoryLen(memory, convs, comparison_id) ==
    IF comparison_id \in DOMAIN memory
    THEN Len(memory[comparison_id].chat_history)
    ELSE LET db_conv == get_conversation_from_db(convs, comparison_id)
         IN IF db_conv # None THEN Len(db_conv.messages) ELSE 0

\* the lookups main.py:391-403 makes
ResolveTrace(memory, comparison_id) ==
    IF comparison_id \in DOMAIN memory
    THEN <<"memory_read">> ELSE <<"memory_read", "db_read">>

\* main.py:385-459: llm_response is what followup_chain.invoke produces
ask_followup(memory, convs, t, llmAvailable, comparison_id, question, llm_response) ==
    LET memory_data == ResolveContext(memory, convs, comparison_id)
        unchanged(resp, trace) ==
            [resp |-> resp, memory |-> memory, convs |-> convs,
             context |-> memory_data, trace |-> trace]
    IN
    IF memory_data = None
    THEN unchanged(HttpError(404, FOLLOWUP_NOT_FOUND),
                   ResolveTrace(memory, comparison_id))
    ELSE IF ~llmAvailable
    THEN unchanged(HttpError(503, LLM_UNAVAILABLE),
                   ResolveTrace(memory, comparison_id))
    ELSE IF llm_response = LlmError
    THEN unchanged(HttpError(500, <<"Failed to process follow-up: ", "error">>),
                   ResolveTrace(memory, comparison_id) \o <<"llm">>)
    ELSE
    LET answer == llm_response.content
        convs2 == SaveToDatabase(convs, t, comparison_id, question, answer)
        memory2 == UpdateMemory(memory, comparison_id, question, answer)
    IN [resp |-> Ok([answer |-> answer,
                     comparison_id |-> comparison_id,
                     conversation_history |->
                         ConversationHistoryLen(memory2, convs2, comparison_id)]),
        memory |-> memory2,
        convs |-> convs2,
        context |-> memory_data,
        trace |-> ResolveTrace(memory, comparison_id) \o <<"llm", "db_write">>]

\* main.py:469-474
HistoryOfChat(chat_history) ==
    [i \in 1..Len(chat_history) |->
        [role |-> IF chat_history[i].type = "human" THEN "user" ELSE "assistant",
         content |-> chat_history[i].content]]

\* main.py:461-489
get_followup_history(memory, convs, comparison_id) ==
    IF comparison_id \in DOMAIN memory
    THEN Ok([comparison_id |-> comparison_id,
             history |-> HistoryOfChat(memory[comparison_id].chat_history)])
    ELSE LET db_conversation == get_conversation_from_db(convs, comparison_id)
         IN IF db_conversation # None
            THEN Ok([comparison_id |-> comparison_id,
                     history |-> db_conversation.messages])
            ELSE HttpError(404, HISTORY_NOT_FOUND)

TranscriptLen(memory, convs, comparison_id) ==
    IF comparison_id \in DOMAIN memory
    THEN Len(memory[comparison_id].chat_history) ELSE 0

AskFollowup(comparison_id, question, llm_response) ==
    /\ TranscriptLen(conversation_memory, conversations, comparison_id) + 2
           <= MaxMessages
    /\ \E r \in {ask_followup(conversation_memory, conversations, now, llm,
                               comparison_id, question, llm_response)} :
          /\ conversation_memory' = r.memory
          /\ conversations' = r.convs
          /\ last' = [op |-> "followup", comparison_id |-> comparison_id,
                      question |-> question,
                      llm_response |-> IF HasEvent(r.trace, "llm")
                                       THEN llm_response ELSE None,
                      context |-> r.context,
                      resp |-> r.resp, trace |-> r.trace]
    /\ UNCHANGED <<now, llm, comparison_cache, nextId, shareVars, historyVars,
                   compareVars>>

FollowupHistory(comparison_id) ==
    /\ last' = [op |-> "history", comparison_id |-> comparison_id,
                resp |-> get_followup_history(conversation_memory,
                                              conversations, comparison_id),
                trace |-> ResolveTrace(conversation_memory, comparison_id)]
    /\ UNCHANGED <<now, llm, comparison_cache, conversation_memory,
                   conversations, nextId, shareVars, historyVars, compareVars>>

\* storage.py: save_conversation_to_db. No handler of main.py calls it: the
\* durable tier is filled by a collaborator that persists a live session.
SaveConversationToDb(comparison_id) ==
    /\ comparison_id \in DOMAIN conversation_memory
    /\ Len(conversations) < MaxConversations
    /\ conversations' =
           create_conversation(conversations, comparison_id,
               conversation_memory[comparison_id].original_comparison,
               conversation_memory[comparison_id].items,
               conversation_memory[comparison_id].category)
    /\ last' = [op |-> "save_conversation", comparison_id |-> comparison_id]
    /\ UNCHANGED <<now, llm, comparison_cache, conversation_memory, nextId,
                   shareVars, historyVars, compareVars>>

\* the process starts again: storage.py:28 and main.py:108-116 run anew, the
\* database stays
Restart ==
    /\ conversation_memory' = <<>>
    /\ llm' \in BOOLEAN
    /\ last' = [op |-> "restart"]
    /\ UNCHANGED <<now, comparison_cache, conversations, nextId, shareVars,
                   historyVars, compareVars>>

----------------------------------------------------------------------------
(* Inputs of the requests, and the specification of the request handlers *)

Str_x == <<"x">>
Str__x_ == <<" ", "x", " ">>
Str_phone == <<"p", "h", "o", "n", "e">>
Str_A == <<"A">>
Str_a == <<"a">>
Str_B == <<"B">>

RejectedItemLists ==
    { <<>>, <<Str_x>>, <<Str_ab>>,
      <<Str_x, Str_phone>>, <<Str_ab, Str__x_>>, <<Str_A, Str_a>>,
      <<Str_A, Str_B>>,
      <<Str_ab, Str_Ab_>>, <<Str_ab, Str_cd, Str_Ab_>> }

AcceptedItemLists == { <<Str_ab, Str_cd>>, <<Str__Cd, Str_Ab_>> }

CompareRequest(category, items, user_preferences) ==
    [category |-> category, items |-> items,
     user_preferences |-> user_preferences]

\* a preferences object whose fields are all empty
EmptyPrefs == Prefs(<<>>, "", "")

\* data.user_preferences, as user_prefs_dict (main.py:195)
ComparePrefs == {None, NoPrefs, EmptyPrefs, PricePrefs}

\* the rejected lists once each, the accepted ones with every preference
CompareRequests ==
    { CompareRequest("Gadgets", items, None) : items \in RejectedItemLists }
    \cup { CompareRequest("Gadgets", items, user_preferences) :
             items \in AcceptedItemLists, user_preferences \in ComparePrefs }

WinnerOutput == Payload("intro", "ab", "cheaper", Null)
RejectionOutput == Payload(Null, Null, Null, "These items cannot be compared.")

WinnerWithMessageOutput ==
    Payload(Null, "ab", "cheaper", "These items cannot be compared.")

\* every search answers; the first times out; every search times out
SearchOutcomes(items) ==
    { [i \in 1..Len(items) |-> "results"],
      [i \in 1..Len(items) |-> IF i = 1 THEN "timeout" ELSE "results"],
      [i \in 1..Len(items) |-> "timeout"] }

LlmOutputs ==
    { WinnerOutput, RejectionOutput, WinnerWithMessageOutput, Malformed }

InitCompare == Fresh /\ llm \in BOOLEAN

\* the outcomes of the searches and the output of the LLM are drawn only
\* for a request that reaches them
CompareStep ==
    \E req \in CompareRequests :
        \E calls \in {CallsOf(req.category, req.items, req.user_preferences,
                               Malformed)} :
           \E search_out \in IF HasEvent(calls, "search")
                              THEN SearchOutcomes(req.items)
                              ELSE {[i \in 1..Len(req.items) |-> "results"]},
              llm_out \in IF HasEvent(calls, "llm")
                           THEN LlmOutputs ELSE {Malformed} :
               Compare(req.category, req.items, req.user_preferences,
                       search_out, llm_out)

NextCompare == CompareStep \/ SweepExpired \/ Tick

\* the /compare handler alone, with the clock and the periodic sweep
SpecCompare == InitCompare /\ [][NextCompare]_vars

\* the requests of the session specification
SessionCompareRequests ==
    { CompareRequest("Gadgets", items, user_preferences) :
        items \in AcceptedItemLists, user_preferences \in {None, PricePrefs} }

Questions == {"q1", "q2"}
LlmResponses == { [content |-> "a1"], LlmError }
ComparisonIds == 1..MaxIds

Init == Fresh /\ llm \in BOOLEAN

SessionCompareStep ==
    \E req \in SessionCompareRequests :
        Compare(req.category, req.items, req.user_preferences,
                [i \in 1..Len(req.items) |-> "results"], WinnerOutput)

AskFollowupStep ==
    \E comparison_id \in ComparisonIds, question \in Questions,
       llm_response \in LlmResponses :
        AskFollowup(comparison_id, question, llm_response)

FollowupHistoryStep ==
    \E comparison_id \in ComparisonIds : FollowupHistory(comparison_id)

SaveConversationStep ==
    \E comparison_id \in ComparisonIds : SaveConversationToDb(comparison_id)

Next ==
    \/ SessionCompareStep
    \/ AskFollowupStep
    \/ FollowupHistoryStep
    \/ SaveConversationStep
    \/ Restart

\* the handlers that create, read and extend sessions
Spec == Init /\ [][Next]_vars

----------------------------------------------------------------------------
(* Spellings of an item list, stated without strip, lower or sorted *)

IsLetter(c) == (Ord[c] >= 65 /\ Ord[c] <= 90) \/ (Ord[c] >= 97 /\ Ord[c] <= 122)

SameLetter(c, d) ==
    \/ c = d
    \/ /\ IsLetter(c) /\ IsLetter(d)
       /\ (Ord[c] - Ord[d] = 32 \/ Ord[d] - Ord[c] = 32)

SpacesOnly(s, from, to) == \A k \in from..to : s[k] = " "

\* s and t differ only in letter case and in leading or trailing spaces
ItemVariant(s, t) ==
    \E a \in 1..(Len(s) + 1), b \in 0..Len(s),
       c \in 1..(Len(t) + 1), d \in 0..Len(t) :
        /\ b - a >= -1 /\ b - a = d - c
        /\ SpacesOnly(s, 1, a - 1) /\ SpacesOnly(s, b + 1, Len(s))
        /\ SpacesOnly(t, 1, c - 1) /\ SpacesOnly(t, d + 1, Len(t))
        /\ \A k \in 0..(b - a) : SameLetter(s[a + k], t[c + k])

\* l is m reordered, item by item a variant
ListVariant(l, m) ==
    /\ Len(l) = Len(m)
    /\ \E p \in Permutations(1..Len(l)) :
           \A i \in 1..Len(l) : ItemVariant(l[i], m[p[i]])

----------------------------------------------------------------------------
(* The normalization of item lists, on its own *)

\* item names with upper and lower case and with spaces at either end
NormalizeItemNames ==
    { <<>>, <<" ">>, Str_a, <<" ", "A">>, Str_B, <<"b", " ">>, Str_Ab_ }

\* the lists of at most MaxItems of them
NormalizeItemLists ==
    UNION { [1..n -> NormalizeItemNames] : n \in 0..MaxItems }

InitNormalize == Fresh /\ llm = TRUE

\* repository.py:267: a list is normalized
NormalizeItems ==
    /\ last.op = "init"
    /\ \E items \in NormalizeItemLists :
           last' = [op |-> "normalize", items |-> items,
                    normalized |-> normalize_items(items)]
    /\ UNCHANGED <<now, llm, comparison_cache, conversation_memory,
                   conversations, nextId, shareVars, historyVars, compareVars>>

\* repository.py:267: then another spelling or order of the same list
NormalizeVariant ==
    /\ last.op = "normalize" /\ "variant_of" \notin DOMAIN last
    /\ \E other \in NormalizeItemLists :
           /\ ListVariant(last.items, other)
           /\ last' = [op |-> "normalize", items |-> other,
                       normalized |-> normalize_items(other),
                       variant_of |-> last.items]
    /\ UNCHANGED <<now, llm, comparison_cache, conversation_memory,
                   conversations, nextId, shareVars, historyVars, compareVars>>

\* repository.py:267: the normalized list is normalized again
NormalizeAgain ==
    /\ last.op = "normalize"
    /\ last' = [op |-> "renormalize", items |-> last.normalized,
                normalized |-> normalize_items(last.normalized)]
    /\ UNCHANGED <<now, llm, comparison_cache, conversation_memory,
                   conversations, nextId, shareVars, historyVars, compareVars>>

NextNormalize == NormalizeItems \/ NormalizeVariant \/ NormalizeAgain

SpecNormalize == InitNormalize /\ [][NextNormalize]_vars

----------------------------------------------------------------------------
(* Shared comparisons: POST /share-comparison and GET /shared/{share_id} *)

\* repository.py: create_shared_comparison, through storage.save_shared,
\* which gives no expires_in_days; views has the column default 0
create_shared_comparison(shared, t, comparison_id, share_id, category, items, result) ==
    Append(shared, [share_id |-> share_id,
                    comparison_id |-> comparison_id,
                    category |-> category,
                    items |-> items,
                    result |-> result,
                    views |-> 0,
                    expires_at |-> Null,
                    created_at |-> t])

\* .first() of the rows with this share_id, 0 if none
FirstShared(shared, share_id) ==
    LET m == { i \in 1..Len(shared) : shared[i].share_id = share_id }
    IN IF m = {} THEN 0 ELSE CHOOSE i \in m : \A j \in m : i <= j

\* repository.py: get_shared_comparison, the row or None; an expired row
\* counts as none
db_get_shared_comparison(shared, t, share_id) ==
    LET i == FirstShared(shared, share_id)
    IN IF i = 0 THEN None
       ELSE IF shared[i].expires_at # Null /\ shared[i].expires_at < t
            THEN None
            ELSE shared[i]

\* storage.py: load_shared
load_shared(shared, t, share_id) ==
    LET row == db_get_shared_comparison(shared, t, share_id)
    IN IF row = None THEN None
       ELSE [share_id |-> row.share_id,
             category |-> row.category,
             items |-> row.items,
             result |-> row.result,
             created_at |-> row.created_at,
             user_id |-> Null,
             views |-> row.views]

\* repository.py:179: the SELECT of increment_shared_views, which loads the
\* row with the views it has now
SelectViews(shared, share_id) ==
    shared[FirstShared(shared, share_id)].views

\* repository.py:181-182: shared.views += 1 is computed in Python from the
\* value the SELECT loaded, and commit writes that number to the row
CommitViews(shared, share_id, views_read) ==
    [shared EXCEPT ![FirstShared(shared, share_id)].views = views_read + 1]

\* the server processes that share the database
Workers == 1..MaxWorkers

Idle == [pc |-> "idle"]

\* the requests for share_id that a worker is serving
InFlight(share_id) ==
    { w \in Workers : /\ share_requests[w].pc # "idle"
                      /\ share_requests[w].share_id = share_id }

\* main.py:332-351
ShareComparison(category, items, result) ==
    /\ nextId <= MaxIds
    /\ LET share_id == uuid4(nextId)
           comparison_id == IF "comparison_id" \in DOMAIN result
                            THEN result.comparison_id ELSE Null
       IN /\ shared_comparisons' =
                 create_shared_comparison(shared_comparisons, now,
                     comparison_id, share_id, category, items, result)
          /\ last' = [op |-> "share",
                      resp |-> Ok([share_id |-> share_id,
                                   message |->
                                       "Comparison shared successfully"])]
    /\ nextId' = nextId + 1
    /\ UNCHANGED <<now, llm, comparison_cache, conversation_memory,
                   conversations, share_requests, retrievals, historyVars,
                   compareVars>>

\* main.py:357-360: load_shared in a session of its own; without a share the
\* request ends with 404
GetSharedLoad(w, share_id) ==
    /\ share_requests[w] = Idle
    /\ retrievals[share_id] + Cardinality(InFlight(share_id)) < MaxRetrievals
    /\ \E shared \in {load_shared(shared_comparisons, now, share_id)} :
          IF shared = None
          THEN /\ last' = [op |-> "shared", worker |-> w,
                           share_id |-> share_id,
                           resp |-> HttpErrorStr(404,
                                        "Shared comparison not found")]
               /\ UNCHANGED share_requests
          ELSE /\ share_requests' =
                      [share_requests EXCEPT ![w] =
                          [pc |-> "loaded", share_id |-> share_id,
                           shared |-> shared]]
               /\ last' = [op |-> "load_shared", worker |-> w,
                           share_id |-> share_id]
    /\ UNCHANGED <<now, llm, comparison_cache, conversation_memory,
                   conversations, nextId, shared_comparisons, retrievals,
                   historyVars, compareVars>>

\* main.py:363, storage.py:147-148, repository.py:179: a second session
\* loads the row
IncrementSelect(w) ==
    /\ share_requests[w].pc = "loaded"
    /\ share_requests' =
           [share_requests EXCEPT ![w] =
               [pc |-> "selected",
                share_id |-> share_requests[w].share_id,
                shared |-> share_requests[w].shared,
                views_read |-> SelectViews(shared_comparisons,
                                           share_requests[w].share_id)]]
    /\ last' = [op |-> "select_views", worker |-> w,
                share_id |-> share_requests[w].share_id]
    /\ UNCHANGED <<now, llm, comparison_cache, conversation_memory,
                   conversations, nextId, shared_comparisons, retrievals,
                   historyVars, compareVars>>

\* repository.py:181-183: the row is written with the loaded views plus one
IncrementCommit(w) ==
    /\ share_requests[w].pc = "selected"
    /\ shared_comparisons' =
           CommitViews(shared_comparisons, share_requests[w].share_id,
                       share_requests[w].views_read)
    /\ share_requests' =
           [share_requests EXCEPT ![w] =
               [pc |-> "incremented",
                share_id |-> share_requests[w].share_id,
                shared |-> share_requests[w].shared]]
    /\ last' = [op |-> "commit_views", worker |-> w,
                share_id |-> share_requests[w].share_id]
    /\ UNCHANGED <<now, llm, comparison_cache, conversation_memory,
                   conversations, nextId, retrievals, historyVars,
                   compareVars>>

\* main.py:364-366: the dictionary loaded first is answered with its views
\* plus one
GetSharedReturn(w) ==
    /\ share_requests[w].pc = "incremented"
    /\ share_requests' = [share_requests EXCEPT ![w] = Idle]
    /\ retrievals' =
           [retrievals EXCEPT ![share_requests[w].share_id] = @ + 1]
    /\ last' = [op |-> "shared", worker |-> w,
                share_id |-> share_requests[w].share_id,
                resp |-> Ok([share_requests[w].shared
                                 EXCEPT !.views = @ + 1])]
    /\ UNCHANGED <<now, llm, comparison_cache, conversation_memory,
                   conversations, nextId, shared_comparisons, historyVars,
                   compareVars>>

\* data.result of a share request: without and with a comparison_id
ShareResults ==
    { WinnerOutput,
      WithMetadata(WinnerOutput, 1, <<Str_ab, Str_cd>>, "Gadgets") }

InitShare == Fresh /\ llm = TRUE

ShareComparisonStep ==
    \E result \in ShareResults :
        ShareComparison("Gadgets", <<Str_ab, Str_cd>>, result)

GetSharedLoadStep ==
    \E w \in Workers, share_id \in 1..MaxIds : GetSharedLoad(w, share_id)

IncrementSelectStep == \E w \in Workers : IncrementSelect(w)

IncrementCommitStep == \E w \in Workers : IncrementCommit(w)

GetSharedReturnStep == \E w \in Workers : GetSharedReturn(w)

NextShare ==
    \/ ShareComparisonStep
    \/ GetSharedLoadStep
    \/ IncrementSelectStep
    \/ IncrementCommitStep
    \/ GetSharedReturnStep

\* shares and their retrievals, served by MaxWorkers processes
SpecShare == InitShare /\ [][NextShare]_vars

----------------------------------------------------------------------------
(* The saved history: POST /save-comparison, GET /history/{user_id} and
   DELETE /history/{user_id}/{comparison_id} *)

\* main.py:375: the default of limit
DefaultHistoryLimit == 100

\* repository.py:26-32: create_user; the id is the column default, a uuid4
create_user(userTable, id) == userTable \cup {id}

\* repository.py:35-37: get_user, the row or None
get_user(userTable, user_id) ==
    IF user_id \in userTable THEN [id |-> user_id] ELSE None

\* repository.py:74-81 with autoflush off (connection.py:39): the query of
\* line 75 does not see an Item added by an earlier round of the loop, so a
\* name that the table lacks and the list holds twice is added twice, and
\* the unique index on items.name makes the commit fail
AddsItemTwice(itemTable, items) ==
    \E i, j \in 1..Len(items) :
        /\ i < j
        /\ items[i] = items[j]
        /\ items[i] \notin DOMAIN itemTable

Occurrences(items, item_name) ==
    Cardinality({ i \in 1..Len(items) : items[i] = item_name })

\* repository.py:74-81: the counts of the items after the loop
CountItems(itemTable, category, items) ==
    [name \in DOMAIN itemTable \cup { items[i] : i \in 1..Len(items) } |->
        IF name \in DOMAIN itemTable
        THEN [itemTable[name] EXCEPT !.comparison_count =
                  @ + Occurrences(items, name)]
        ELSE [category |-> category, comparison_count |-> 1]]

\* repository.py:58-87: create_comparison. n is the number of the next uuid4
\* value. A user_id without a row gets a new user, whose id replaces the
\* user_id given (line 64); create_user commits on its own, so the new user
\* stays when the later commit fails.
create_comparison(userTable, rows, itemTable, t, n, user_id, category, items, result) ==
    LET known == get_user(userTable, user_id) # None
        userTable2 == IF known THEN userTable
                      ELSE create_user(userTable, uuid4(n))
        owner == IF known THEN user_id ELSE uuid4(n)
        idsUser == IF known THEN 0 ELSE 1
        comparison == [id |-> uuid4(n + idsUser),
                       user_id |-> owner,
                       category |-> category,
                       items |-> items,
                       result |-> result,
                       created_at |-> t]
    IN IF AddsItemTwice(itemTable, items)
       THEN [users |-> userTable2, comparisons |-> rows,
             item_table |-> itemTable, ids |-> idsUser,
             comparison |-> None]
       ELSE [users |-> userTable2,
             comparisons |-> Append(rows, comparison),
             item_table |-> CountItems(itemTable, category, items),
             ids |-> idsUser + 1,
             comparison |-> comparison]

\* storage.py:40-49 and :72-79: the dictionary made of a row
HistoryEntry(comp) ==
    [timestamp |-> comp.created_at,
     category |-> comp.category,
     items |-> comp.items,
     result |-> comp.result,
     id |-> comp.id]

\* x put into a list ordered by created_at, newest first, behind the rows
\* of its own created_at
InsertNewestFirst(x, l) ==
    LET k == Cardinality({ i \in 1..Len(l) : l[i].created_at >= x.created_at })
    IN SubSeq(l, 1, k) \o <<x>> \o SubSeq(l, k + 1, Len(l))

RECURSIVE NewestFirst(_)
\* order_by(desc(Comparison.created_at))
NewestFirst(l) ==
    IF l = <<>> THEN <<>>
    ELSE InsertNewestFirst(l[Len(l)], NewestFirst(SubSeq(l, 1, Len(l) - 1)))

\* repository.py:95-107: get_user_comparisons
get_user_comparisons(rows, user_id, limit, offset, category) ==
    LET mine == SelectSeq(rows, LAMBDA c :
                    /\ c.user_id = user_id
                    /\ TruthyStr(category) => c.category = category)
        ordered == NewestFirst(mine)
    IN SubSeq(ordered, offset + 1, Min(Len(ordered), offset + limit))

\* storage.py:31-49: load_history
load_history(rows, user_id, limit, offset, category) ==
    LET found == get_user_comparisons(rows, user_id, limit, offset, category)
    IN [i \in 1..Len(found) |-> HistoryEntry(found[i])]

\* repository.py:110-123: delete_comparison, the table afterwards and
\* whether a row was deleted
delete_comparison(rows, user_id, comparison_id) ==
    LET m == { i \in 1..Len(rows) : /\ rows[i].id = comparison_id
                                    /\ rows[i].user_id = user_id }
    IN IF m = {} THEN [comparisons |-> rows, deleted |-> FALSE]
       ELSE [comparisons |-> RemoveAt(rows, CHOOSE i \in m :
                                                \A j \in m : i <= j),
             deleted |-> TRUE]

\* a user is registered by a collaborator: no handler of main.py calls
\* create_user other than through create_comparison
CreateUser ==
    /\ nextId <= MaxIds
    /\ users' = create_user(users, uuid4(nextId))
    /\ nextId' = nextId + 1
    /\ last' = [op |-> "create_user", user_id |-> uuid4(nextId)]
    /\ UNCHANGED <<now, llm, comparison_cache, conversation_memory,
                   conversations, comparisons, item_table, shareVars,
                   compareVars>>

\* main.py:320-330 with storage.py:58-79
SaveComparison(user_id, category, items, result) ==
    /\ nextId <= MaxIds
    /\ \E r \in {create_comparison(users, comparisons, item_table, now,
                                   nextId, user_id, category, items,
                                   result)} :
          /\ users' = r.users
          /\ comparisons' = r.comparisons
          /\ item_table' = r.item_table
          /\ nextId' = nextId + r.ids
          /\ last' = [op |-> "save", user_id |-> user_id,
                      category |-> category, items |-> items,
                      result |-> result,
                      resp |-> IF r.comparison = None
                               THEN HttpError(500,
                                        "Failed to save comparison")
                               ELSE Ok([message |->
                                            "Comparison saved successfully",
                                        entry |->
                                            HistoryEntry(r.comparison)])]
    /\ UNCHANGED <<now, llm, comparison_cache, conversation_memory,
                   conversations, shareVars, compareVars>>

\* main.py:374-383, without a category filter and with the default paging
GetHistory(user_id) ==
    /\ last' = [op |-> "history_of_user", user_id |-> user_id,
                after |-> IF last.op = "save" THEN last
                          ELSE [op |-> last.op],
                resp |-> Ok([user_id |-> user_id,
                             history |->
                                 load_history(comparisons, user_id,
                                              DefaultHistoryLimit, 0,
                                              Null)])]
    /\ UNCHANGED <<now, llm, comparison_cache, conversation_memory,
                   conversations, nextId, shareVars, historyVars, compareVars>>

\* main.py:491-505 with storage.py:241-253
DeleteHistoryItem(user_id, comparison_id) ==
    /\ \E r \in {delete_comparison(comparisons, user_id, comparison_id)} :
          /\ comparisons' = r.comparisons
          /\ last' = [op |-> "delete_history_item", user_id |-> user_id,
                      comparison_id |-> comparison_id,
                      resp |-> IF r.deleted
                               THEN Ok([message |->
                                        "Comparison deleted successfully"])
                               ELSE HttpError(404, "Comparison not found")]
    /\ UNCHANGED <<now, llm, comparison_cache, conversation_memory,
                   conversations, nextId, users, item_table, shareVars,
                   compareVars>>

\* user ids that a client made up: values that no uuid4() draw gives
InventedUserIds == {-1, -2}

\* data.items of a save request; /save-comparison validates nothing
SaveItemLists == { <<Str_ab, Str_cd>>, <<Str_ab, Str_ab>> }

InitHistory == Fresh /\ llm = TRUE

\* a client gives a user_id it made up or the id of a user
SaveComparisonStep ==
    \E user_id \in InventedUserIds \cup users, items \in SaveItemLists :
        SaveComparison(user_id, "Gadgets", items, WinnerOutput)

GetHistoryStep ==
    \E user_id \in InventedUserIds \cup users : GetHistory(user_id)

DeleteHistoryItemStep ==
    \E user_id \in InventedUserIds \cup users,
       comparison_id \in 1..(nextId - 1) :
        DeleteHistoryItem(user_id, comparison_id)

NextHistory ==
    \/ CreateUser
    \/ SaveComparisonStep
    \/ GetHistoryStep
    \/ DeleteHistoryItemStep
    \/ Tick

\* the saved history of the users
SpecHistory == InitHistory /\ [][NextHistory]_vars

----------------------------------------------------------------------------
(* /compare served by several workers on one database: the calls that a
   request makes to the database and to the LLM are steps of their own *)

\* main.py:173-203: the input checks and the cache read of worker w. A
\* rejected request and a hit are answered at once; after a miss the worker
\* goes on to the search and the LLM.
CompareRead(w, category, items, user_preferences) ==
    /\ compare_requests[w] = Idle
    /\ nextId <= MaxIds
    /\ IF ValidationMessage(items) # Null
       THEN /\ last' = [op |-> "compare", worker |-> w,
                        category |-> category, items |-> items,
                        user_preferences |-> user_preferences,
                        resp |-> Ok([message |-> ValidationMessage(items)])]
            /\ UNCHANGED <<comparison_cache, nextId, compare_requests>>
       ELSE \E r \in {get_cached_comparison_result(comparison_cache, now,
                          category, items, user_preferences)} :
               /\ comparison_cache' = r.cache
               /\ IF r.result # None
                  THEN /\ last' = [op |-> "compare", worker |-> w,
                                   category |-> category, items |-> items,
                                   user_preferences |-> user_preferences,
                                   resp |-> Ok(WithMetadata(r.result,
                                                   uuid4(nextId), items,
                                                   category))]
                       /\ nextId' = nextId + 1
                       /\ UNCHANGED compare_requests
                  ELSE /\ compare_requests' =
                              [compare_requests EXCEPT ![w] =
                                  [pc |-> "missed", category |-> category,
                                   items |-> items,
                                   user_preferences |-> user_preferences]]
                       /\ last' = [op |-> "cache_miss", worker |-> w]
                       /\ UNCHANGED nextId
    /\ UNCHANGED <<now, llm, conversation_memory, conversations, shareVars,
                   historyVars>>

\* main.py:232-290: the search, the LLM call and the parse of worker w
CompareInvoke(w, llm_out) ==
    /\ compare_requests[w].pc = "missed"
    /\ LET req == compare_requests[w]
           answer(resp) ==
               /\ last' = [op |-> "compare", worker |-> w,
                           category |-> req.category, items |-> req.items,
                           user_preferences |-> req.user_preferences,
                           resp |-> resp]
               /\ compare_requests' = [compare_requests EXCEPT ![w] = Idle]
       IN IF ~llm
          THEN answer(CompareFailed(HttpErrorStr(503, LLM_UNAVAILABLE)))
          ELSE IF llm_out = Malformed
          THEN answer(CompareFailed(<<"OutputParserException">>))
          ELSE IF TruthyStr(llm_out.message)
          THEN answer(Ok(llm_out))
          ELSE /\ compare_requests' =
                      [compare_requests EXCEPT ![w] =
                          [pc |-> "answered",
                           category |-> req.category,
                           items |-> req.items,
                           user_preferences |-> req.user_preferences,
                           result_dict |->
                               EnsureNoWinner(llm_out,
                                   has_preferences(req.user_preferences))]]
               /\ last' = [op |-> "llm_answer", worker |-> w]
    /\ UNCHANGED <<now, llm, comparison_cache, conversation_memory,
                   conversations, nextId, shareVars, historyVars>>

\* main.py:292-314: the cache write, the session and the response of
\* worker w. The session goes to the map of the process that serves the
\* request; the ids being fresh, the maps of the workers are shown as one.
CompareWrite(w) ==
    /\ compare_requests[w].pc = "answered"
    /\ nextId <= MaxIds
    /\ Len(comparison_cache) < MaxCache
    /\ LET req == compare_requests[w]
           id == uuid4(nextId)
           returned == WithMetadata(req.result_dict, id, req.items,
                                    req.category)
       IN /\ \E pos \in 1..(Len(comparison_cache) + 1) :
                 comparison_cache' =
                     cache_comparison(comparison_cache, pos, now,
                                      req.category, req.items,
                                      req.result_dict, req.user_preferences,
                                      DefaultTtlHours)
          /\ conversation_memory' =
                 (id :> NewSession(returned, req.items, req.category))
                     @@ conversation_memory
          /\ last' = [op |-> "compare", worker |-> w,
                      category |-> req.category, items |-> req.items,
                      user_preferences |-> req.user_preferences,
                      resp |-> Ok(returned)]
    /\ nextId' = nextId + 1
    /\ compare_requests' = [compare_requests EXCEPT ![w] = Idle]
    /\ UNCHANGED <<now, llm, conversations, shareVars, historyVars>>

InitCompareWorkers == Fresh /\ llm \in BOOLEAN

CompareReadStep ==
    \E w \in Workers :
        \/ \E req \in SessionCompareRequests :
               CompareRead(w, req.category, req.items, req.user_preferences)
        \/ CompareRead(w, "Gadgets", <<Str_ab, Str_Ab_>>, None)

CompareInvokeStep ==
    \E w \in Workers, llm_out \in {WinnerOutput, RejectionOutput, Malformed} :
        CompareInvoke(w, llm_out)

CompareWriteStep == \E w \in Workers : CompareWrite(w)

NextCompareWorkers ==
    \/ CompareReadStep
    \/ CompareInvokeStep
    \/ CompareWriteStep

\* /compare requests of MaxWorkers workers, their steps interleaved
SpecCompareWorkers == InitCompareWorkers /\ [][NextCompareWorkers]_vars

----------------------------------------------------------------------------
(* One process serving every endpoint, from its start on *)

NextProcess ==
    \/ SessionCompareStep
    \/ AskFollowupStep
    \/ FollowupHistoryStep
    \/ SaveComparisonStep
    \/ GetHistoryStep
    \/ DeleteHistoryItemStep
    \/ ShareComparisonStep
    \/ GetSharedLoadStep
    \/ IncrementSelectStep
    \/ IncrementCommitStep
    \/ GetSharedReturnStep

InitProcess == Fresh /\ llm = TRUE

\* the lifetime of one process with the LLM configured: no restart
SpecProcess == InitProcess /\ [][NextProcess]_vars

----------------------------------------------------------------------------
(* Claims about the cache *)

\* a store, then at once a lookup of the same category and preferences with
\* the items in any spelling, before the stored row's expires_at
StoreThenLookup ==
    /\ last.op = "store"
    /\ last'.op = "lookup"
    /\ last'.category = last.category
    /\ ListVariant(last'.items, last.items)
    /\ last'.user_preferences = last.user_preferences
    /\ now < last.expires_at

\* the row just stored is the only one with its key
StoredKeyIsUnique ==
    Cardinality(MatchingRows(comparison_cache, last.category, last.items,
                             last.user_preferences)) = 1

\* C1 as stated: from any reachable cache state, store(cat, items, result,
\* prefs) followed immediately by lookup(cat, items', prefs), items' any
\* case/whitespace variant or permutation of items, within the TTL, returns
\* exactly result.
C1_RoundTripAnyState ==
    [][StoreThenLookup => last'.result = last.result]_vars

\* C1 as amended: the same, from a cache state that holds no other row with
\* the key (category, normalized items, normalized preferences) of the store.
C1_RoundTrip ==
    [][StoreThenLookup /\ StoredKeyIsUnique => last'.result = last.result]_vars

\* a lookup that followed a store of another spelling of its items and
\* returned the stored result
C1_Witness ==
    /\ last.op = "lookup"
    /\ last.after.op = "store"
    /\ last.after.category = last.category
    /\ last.after.items # last.items
    /\ ListVariant(last.items, last.after.items)
    /\ last.after.user_preferences = last.user_preferences
    /\ now < last.after.expires_at
    /\ last.result = last.after.result

\* C2: a lookup whose matching entry has expires_at <= now deletes that entry
\* and returns absent; an entry is returned only while now < expires_at.
C2_ExpiryOnRead ==
    [][last'.op = "lookup" =>
         LET i == FirstMatch(comparison_cache, last'.category, last'.items,
                             last'.user_preferences)
         IN /\ (i # 0 /\ comparison_cache[i].expires_at <= now) =>
                   /\ last'.result = None
                   /\ comparison_cache' = RemoveAt(comparison_cache, i)
            /\ last'.result # None =>
                   (i # 0 /\ now < comparison_cache[i].expires_at)]_vars

----------------------------------------------------------------------------
(* Claims about POST /compare *)

Max(S) == CHOOSE x \in S : \A y \in S : y <= x

\* the length of s without its leading and trailing spaces
TrimmedLength(s) ==
    LET ns == { i \in 1..Len(s) : s[i] # " " }
    IN IF ns = {} THEN 0
       ELSE Max(ns) - (CHOOSE x \in ns : \A y \in ns : x <= y) + 1

\* two items of the list are equal after trim and lowercase
TwoItemsEqual(items) ==
    \E i, j \in 1..Len(items) : i < j /\ ItemVariant(items[i], items[j])

AnyItemShort(items) ==
    \E i \in 1..Len(items) : TrimmedLength(items[i]) < 2

\* the normal {message} response of a rejected request
Rejection(m) == [status |-> 200, body |-> [message |-> m]]

\* C3: /compare applies its checks in a fixed order and stops at the first
\* that fails: fewer than 2 items gives the too-few message; else any item of
\* trimmed length < 2 gives the unclear-items message; only then two equal
\* items give the identical-items message; a list that passes all three gets
\* none of these and goes on to the cache. Each rejection is a normal
\* {message} response.
C3_ValidationOrder ==
    last.op = "compare" =>
        LET items == last.items
            tooFew == Len(items) < 2
            tooShort == AnyItemShort(items)
        IN /\ tooFew => last.resp = Rejection(MSG_TOO_FEW)
           /\ (~tooFew /\ tooShort) => last.resp = Rejection(MSG_UNCLEAR)
           /\ (~tooFew /\ ~tooShort /\ TwoItemsEqual(items)) =>
                  last.resp = Rejection(MSG_IDENTICAL)
           /\ (~tooFew /\ ~tooShort /\ ~TwoItemsEqual(items)) =>
                  /\ last.resp \notin { Rejection(MSG_TOO_FEW),
                                        Rejection(MSG_UNCLEAR),
                                        Rejection(MSG_IDENTICAL) }
                  /\ HasEvent(last.trace, "cache_read")

\* a list whose items are both too short and equal was rejected by the
\* length check, which comes first
C3_Witness ==
    /\ last.op = "compare"
    /\ last.items = <<Str_A, Str_a>>
    /\ last.resp = Rejection(MSG_UNCLEAR)
    /\ last.trace = <<>>

\* C4 as stated: every list of at least 2 items with two items equal after
\* trim+lowercase is rejected with the identical-items message, and a list of
\* pairwise distinct items is not.
C4_DistinctnessAnyLength ==
    last.op = "compare" =>
        /\ (Len(last.items) >= 2 /\ TwoItemsEqual(last.items)) =>
               last.resp = Rejection(MSG_IDENTICAL)
        /\ ~TwoItemsEqual(last.items) =>
               last.resp # Rejection(MSG_IDENTICAL)

\* C4 as amended: every list of at least 2 items, each of trimmed length at
\* least 2, with two items equal after trim+lowercase is rejected with the
\* identical-items message, and a list of pairwise distinct items is not.
C4_Distinctness ==
    last.op = "compare" =>
        /\ (Len(last.items) >= 2 /\ ~AnyItemShort(last.items)
              /\ TwoItemsEqual(last.items)) =>
               last.resp = Rejection(MSG_IDENTICAL)
        /\ ~TwoItemsEqual(last.items) =>
               last.resp # Rejection(MSG_IDENTICAL)

\* two spellings of one item, both long enough, were rejected as identical
C4_Witness ==
    /\ last.op = "compare"
    /\ last.items = <<Str_ab, Str_Ab_>>
    /\ last.resp = Rejection(MSG_IDENTICAL)

\* the request supplies no non-empty preference field
NoPreferenceSupplied(user_preferences) ==
    \/ user_preferences = None
    \/ /\ user_preferences.priorities \in {NullList, <<>>}
       /\ user_preferences.budget \in {Null, ""}
       /\ user_preferences.use_case \in {Null, ""}

\* the LLM was invoked and its output parsed to a payload naming a winner
LlmNamedWinner ==
    /\ last.op = "compare"
    /\ HasEvent(last.trace, "llm")
    /\ last.llm_out # Malformed
    /\ last.llm_out.personalized_winner # Null

\* the response is a payload without winner, with a comparison_id and the
\* request's items and category
WinnerSuppressed ==
    /\ last.resp.status = 200
    /\ last.resp.body.personalized_winner = Null
    /\ last.resp.body.winner_reason = Null
    /\ "comparison_id" \in DOMAIN last.resp.body
    /\ last.resp.body.comparison_id \in Nat \ {0}
    /\ last.resp.body.items = last.items
    /\ last.resp.body.category = last.category

\* C5 as stated: no preference supplied and an LLM payload with a non-null
\* personalized_winner give a response with personalized_winner and
\* winner_reason null, a comparison_id and the request's items and category.
C5_WinnerSuppressionAnyPayload ==
    (LlmNamedWinner /\ NoPreferenceSupplied(last.user_preferences))
        => WinnerSuppressed

\* C5 as amended: the same, for an LLM payload that carries no message.
C5_WinnerSuppression ==
    (LlmNamedWinner /\ NoPreferenceSupplied(last.user_preferences)
        /\ last.llm_out.message \in {Null, ""})
        => WinnerSuppressed

\* a preferences object with every field null, a winner from the LLM, none
\* in the response
C5_Witness ==
    /\ LlmNamedWinner
    /\ last.user_preferences = NoPrefs
    /\ last.llm_out = WinnerOutput
    /\ WinnerSuppressed

\* C6: on a cache hit /compare returns the cached payload with a comparison_id
\* issued to no request before and with items and category exactly as the
\* request spelled them; the cache is left as it was.
C6_CacheHit ==
    [][(last'.op = "compare" /\ last'.trace = <<"cache_read">>) =>
         LET i == FirstMatch(comparison_cache, last'.category, last'.items,
                             last'.user_preferences)
             body == last'.resp.body
         IN /\ i # 0
            /\ last'.resp.status = 200
            /\ \A k \in DOMAIN comparison_cache[i].result :
                   body[k] = comparison_cache[i].result[k]
            /\ body.comparison_id \notin 1..(nextId - 1)
            /\ body.comparison_id \notin DOMAIN conversation_memory
            /\ nextId' > body.comparison_id
            /\ body.items = last'.items
            /\ body.category = last'.category
            /\ comparison_cache' = comparison_cache]_vars

\* a hit for items spelled otherwise than the row stores them
C6_Witness ==
    /\ last.op = "compare"
    /\ last.trace = <<"cache_read">>
    /\ last.items = <<Str__Cd, Str_Ab_>>
    /\ last.resp.body.items = last.items
    /\ \E i \in 1..Len(comparison_cache) :
           /\ comparison_cache[i].items = <<Str_ab, Str_cd>>
           /\ comparison_cache[i].items # last.resp.body.items

----------------------------------------------------------------------------
(* Claims about sessions and follow-ups *)

\* C7: with the LLM not configured, a /compare request with valid input and
\* a cache miss, and an /ask-followup request for a resolvable id, each fail
\* with status 503 and the explicit detail, and the LLM is not invoked.
C7_LlmUnavailable ==
    /\ (last.op = "compare" /\ ~llm /\ HasEvent(last.trace, "search")) =>
           /\ last.resp = HttpError(503, LLM_UNAVAILABLE)
           /\ ~HasEvent(last.trace, "llm")
    /\ (last.op = "followup" /\ ~llm /\ last.context # None) =>
           /\ last.resp = HttpError(503, LLM_UNAVAILABLE)
           /\ ~HasEvent(last.trace, "llm")

\* no row of the durable tier has this comparison_id
NoDurableConversation(convs, comparison_id) ==
    \A i \in 1..Len(convs) : convs[i].comparison_id # comparison_id

\* C8: a follow-up for an id held by neither tier fails with a not-found
\* failure; the LLM is not invoked and neither tier changes.
C8_FollowupNotFound ==
    [][(/\ last'.op = "followup"
        /\ last'.comparison_id \notin DOMAIN conversation_memory
        /\ NoDurableConversation(conversations, last'.comparison_id)) =>
         /\ last'.resp = HttpError(404, FOLLOWUP_NOT_FOUND)
         /\ ~HasEvent(last'.trace, "llm")
         /\ conversation_memory' = conversation_memory
         /\ conversations' = conversations]_vars

\* a follow-up for an unknown id was refused while the LLM was configured
\* and each tier held another id
C8_Witness ==
    /\ last.op = "followup"
    /\ last.resp = HttpError(404, FOLLOWUP_NOT_FOUND)
    /\ llm
    /\ conversation_memory # <<>>
    /\ conversations # <<>>

\* the messages durable storage holds for an id, without their timestamps
DurableTranscript(convs, comparison_id) ==
    IF NoDurableConversation(convs, comparison_id) THEN <<>>
    ELSE LET i == CHOOSE i \in 1..Len(convs) :
                      /\ convs[i].comparison_id = comparison_id
                      /\ \A j \in 1..(i - 1) :
                             convs[j].comparison_id # comparison_id
             m == convs[i].messages
         IN [k \in 1..Len(m) |-> [role |-> m[k].role, content |-> m[k].content]]

\* C9: every successful follow-up appends the user question and then the
\* assistant answer to the durable transcript of its id, whether or not the
\* fast tier holds the id, and appends both to the in-memory transcript when
\* the fast tier holds the id.
C9_AppendDurable ==
    [][(last'.op = "followup" /\ last'.resp.status = 200) =>
         LET id == last'.comparison_id
             q == last'.question
             a == last'.resp.body.answer
         IN /\ DurableTranscript(conversations', id) =
                   DurableTranscript(conversations, id)
                       \o <<[role |-> "user", content |-> q],
                            [role |-> "assistant", content |-> a]>>
            /\ id \in DOMAIN conversation_memory =>
                   /\ id \in DOMAIN conversation_memory'
                   /\ conversation_memory'[id].chat_history =
                          conversation_memory[id].chat_history
                              \o <<[type |-> "human", content |-> q],
                                   [type |-> "ai", content |-> a]>>]_vars

\* C10: resolving an id that the fast tier lacks and durable storage has, in
\* /ask-followup or /followup-history, reads the durable conversation, gives
\* its context without a not-found failure and leaves the fast tier as it
\* was.
C10_FallbackNoWriteBack ==
    [][(/\ last'.op \in {"followup", "history"}
        /\ last'.comparison_id \notin DOMAIN conversation_memory
        /\ ~NoDurableConversation(conversations, last'.comparison_id)) =>
         LET id == last'.comparison_id
             i == CHOOSE i \in 1..Len(conversations) :
                      /\ conversations[i].comparison_id = id
                      /\ \A j \in 1..(i - 1) :
                             conversations[j].comparison_id # id
             row == conversations[i]
         IN /\ last'.resp.status # 404
            /\ HasEvent(last'.trace, "db_read")
            /\ last'.op = "followup" =>
                   /\ last'.context.original_comparison =
                          row.original_comparison
                   /\ last'.context.items = row.items
                   /\ last'.context.category = row.category
            /\ last'.op = "history" =>
                   /\ last'.resp.status = 200
                   /\ last'.resp.body.history = row.messages
            /\ conversation_memory' = conversation_memory]_vars

\* a follow-up answered from the durable conversation of an id that the fast
\* tier lacked before and lacks after
C10_Witness ==
    /\ last.op = "followup"
    /\ last.resp.status = 200
    /\ HasEvent(last.trace, "db_read")
    /\ last.comparison_id \notin DOMAIN conversation_memory
    /\ ~NoDurableConversation(conversations, last.comparison_id)

\* C11: after a session is created for an id and a message is appended for
\* it, resolving the id gives a transcript that ends with the appended
\* message: a /followup-history that follows a successful /ask-followup(id, q)
\* answers with a history whose last two entries are {user, q} and
\* {assistant, answer}.
C11_AppendThenResolve ==
    [][(/\ last.op = "followup" /\ last.resp.status = 200
        /\ last'.op = "history"
        /\ last'.comparison_id = last.comparison_id) =>
         /\ last'.resp.status = 200
         /\ LET history == last'.resp.body.history
                n == Len(history)
            IN /\ n >= 2
               /\ history[n - 1].role = "user"
               /\ history[n - 1].content = last.question
               /\ history[n].role = "assistant"
               /\ history[n].content = last.resp.body.answer]_vars

\* the request was rejected by one of the three input checks
RejectedByValidation ==
    /\ last.op = "compare"
    /\ \/ Len(last.items) < 2
       \/ AnyItemShort(last.items)
       \/ TwoItemsEqual(last.items)

\* the request was rejected by the LLM: its payload has a non-empty message
RejectedByLlm ==
    /\ last.op = "compare"
    /\ HasEvent(last.trace, "llm")
    /\ last.llm_out # Malformed
    /\ last.llm_out.message \notin {Null, ""}

\* a normal response without comparison_id, items and category
NormalWithoutMetadata ==
    /\ last.resp.status = 200
    /\ DOMAIN last.resp.body \cap {"comparison_id", "items", "category"} = {}

\* C12 as stated: every rejected comparison (by an input check or by an LLM
\* payload with a non-empty message) is answered with a normal response that
\* holds the message alone, the LLM's message verbatim: no comparison_id,
\* items or category, and no comparison field with a value.
C12_MessageOnly ==
    (RejectedByValidation \/ RejectedByLlm) =>
        /\ NormalWithoutMetadata
        /\ RejectedByLlm => last.resp.body.message = last.llm_out.message
        /\ \A k \in DOMAIN last.resp.body \ {"message"} :
               last.resp.body[k] = Null

\* C12 as amended: a request rejected by an input check is answered with a
\* normal response that holds the message alone; a request rejected by the
\* LLM is answered with the LLM's payload verbatim, its message and whatever
\* other fields it filled; neither carries comparison_id, items or category.
C12_RejectionShape ==
    /\ RejectedByValidation =>
           /\ DOMAIN last.resp.body = {"message"}
           /\ NormalWithoutMetadata
    /\ (~RejectedByValidation /\ RejectedByLlm) =>
           /\ NormalWithoutMetadata
           /\ last.resp.body = last.llm_out

\* a payload of the LLM with nothing but a message was passed through
C12_Witness ==
    /\ RejectedByLlm
    /\ last.llm_out = RejectionOutput
    /\ last.resp = [status |-> 200, body |-> RejectionOutput]

\* C18: every cache-miss /compare that succeeds registers its session under
\* an id that was no key of the fast tier, and every session the fast tier
\* held stays as it was, context and transcript.
C18_FreshSession ==
    [][(last'.op = "compare" /\ HasEvent(last'.trace, "session")) =>
         LET id == last'.resp.body.comparison_id
         IN /\ id \notin DOMAIN conversation_memory
            /\ id \in DOMAIN conversation_memory'
            /\ \A k \in DOMAIN conversation_memory :
                   /\ k \in DOMAIN conversation_memory'
                   /\ conversation_memory'[k] = conversation_memory[k]]_vars

\* a session was registered next to one that already had a transcript
C18_Witness ==
    /\ last.op = "compare"
    /\ HasEvent(last.trace, "session")
    /\ \E k \in DOMAIN conversation_memory :
           /\ k # last.resp.body.comparison_id
           /\ conversation_memory[k].chat_history # <<>>

\* C19: when a search of /compare times out, the request fails (with a 5xx
\* status) and the LLM is not invoked.
C19_SearchTimeoutFails ==
    (/\ last.op = "compare"
     /\ \E i \in 1..Len(last.search_out) : last.search_out[i] = "timeout") =>
        /\ last.resp.status >= 500
        /\ ~HasEvent(last.trace, "llm")

\* C20: an LLM response to /compare that cannot be parsed makes the request
\* fail with a 5xx status; it is never answered with a normal response.
C20_MalformedFails ==
    (/\ last.op = "compare"
     /\ HasEvent(last.trace, "llm")
     /\ last.llm_out = Malformed) =>
        /\ last.resp.status >= 500
        /\ last.resp.status <= 599

\* an unparseable LLM response was answered with status 500
C20_Witness ==
    /\ last.op = "compare"
    /\ HasEvent(last.trace, "llm")
    /\ last.llm_out = Malformed
    /\ last.resp.status = 500

----------------------------------------------------------------------------
(* Further claims about the cache *)

\* C13: a store adds exactly one row and leaves every row that was there as
\* it was, also when a row with an equal key is there; of several rows with
\* one key a lookup returns the same one as the lookup before it, as long as
\* no row changes in between.
C13_StoreAccumulates ==
    [][/\ last'.op = "store" =>
            /\ Len(comparison_cache') = Len(comparison_cache) + 1
            /\ \E p \in 1..Len(comparison_cache') :
                   /\ comparison_cache =
                          SubSeq(comparison_cache', 1, p - 1)
                              \o SubSeq(comparison_cache', p + 1,
                                        Len(comparison_cache'))
                   /\ comparison_cache'[p].category = last'.category
                   /\ comparison_cache'[p].result = last'.result
                   /\ comparison_cache'[p].expires_at = last'.expires_at
                   /\ ListVariant(comparison_cache'[p].items, last'.items)
       /\ (/\ last.op = "lookup" /\ last.result # None
           /\ last'.op = "lookup"
           /\ last'.category = last.category
           /\ ListVariant(last'.items, last.items)
           /\ last'.user_preferences = last.user_preferences) =>
              /\ last'.result = last.result
              /\ comparison_cache' = comparison_cache]_vars

\* a store has put a second row with one key and another result next to the
\* first
C13_Witness ==
    /\ last.op = "store"
    /\ \E i, j \in 1..Len(comparison_cache) :
           /\ i # j
           /\ comparison_cache[i].category = comparison_cache[j].category
           /\ comparison_cache[i].items = comparison_cache[j].items
           /\ comparison_cache[i].user_preferences =
                  comparison_cache[j].user_preferences
           /\ comparison_cache[i].result # comparison_cache[j].result

\* the row does not expire before the present instant
NotYetExpired(c) == c.expires_at >= now

\* C14: the sweep deletes exactly the rows with expires_at < now, leaves the
\* rows with expires_at >= now as they were and in their order, and returns
\* the number of rows it deleted.
C14_SweepExpired ==
    [][last'.op = "sweep" =>
         /\ comparison_cache' = SelectSeq(comparison_cache, NotYetExpired)
         /\ last'.deleted = Len(comparison_cache) - Len(comparison_cache')]_vars

\* a sweep deleted a row and kept the row that expires at this very instant
C14_Witness ==
    /\ last.op = "sweep"
    /\ last.deleted >= 1
    /\ \E i \in 1..Len(comparison_cache) : comparison_cache[i].expires_at = now

----------------------------------------------------------------------------
(* Claims about the normalization *)

\* no space at either end, no upper-case letter
TrimmedLowerCase(item) ==
    /\ item # <<>> => (item[1] # " " /\ item[Len(item)] # " ")
    /\ \A k \in 1..Len(item) : ~(Ord[item[k]] >= 65 /\ Ord[item[k]] <= 90)

\* s <= t by code points
AtMost(s, t) ==
    \/ s = t
    \/ \E k \in 1..Len(t) :
           /\ k - 1 <= Len(s)
           /\ \A j \in 1..(k - 1) : s[j] = t[j]
           /\ (k > Len(s) \/ Ord[s[k]] < Ord[t[k]])

\* C15: two lists that are permutations of each other up to letter case and
\* leading and trailing spaces normalize to one and the same sequence, which
\* is sorted, lower-cased and trimmed; normalizing a normalized list gives it
\* back unchanged.
C15_CanonicalForm ==
    [][/\ (/\ last.op = "normalize" /\ last'.op = "normalize"
           /\ ListVariant(last.items, last'.items)) =>
              last'.normalized = last.normalized
       /\ last'.op = "normalize" =>
              /\ ListVariant(last'.items, last'.normalized)
              /\ \A i \in 1..Len(last'.normalized) :
                     TrimmedLowerCase(last'.normalized[i])
              /\ \A i \in 1..(Len(last'.normalized) - 1) :
                     AtMost(last'.normalized[i], last'.normalized[i + 1])
       /\ last'.op = "renormalize" =>
              last'.normalized = last'.items]_vars

\* ["B", " A"] after ["a", "b "]: another order, case and spacing, and the
\* same normalized list
C15_Witness ==
    /\ last.op = "normalize"
    /\ "variant_of" \in DOMAIN last
    /\ last.variant_of = <<Str_a, <<"b", " ">>>>
    /\ last.items = <<Str_B, <<" ", "A">>>>
    /\ last.normalized = <<Str_a, <<"b">>>>

----------------------------------------------------------------------------
(* Claims about follow-ups for one id *)

\* l ends with the entries of tail, in their order
EndsWith(l, tail) ==
    /\ Len(l) >= Len(tail)
    /\ \A k \in 1..Len(tail) : l[Len(l) - Len(tail) + k] = tail[k]

\* C16: when two follow-ups for one id both complete, one after the other,
\* the durable transcript of the id holds all four messages, each with its
\* role and content, and so does the in-memory transcript when the fast tier
\* holds the id.
C16_ConcurrentAppends ==
    [][(/\ last.op = "followup" /\ last.resp.status = 200
        /\ last'.op = "followup" /\ last'.resp.status = 200
        /\ last'.comparison_id = last.comparison_id) =>
         LET id == last'.comparison_id
             four == <<[role |-> "user", content |-> last.question],
                       [role |-> "assistant",
                        content |-> last.resp.body.answer],
                       [role |-> "user", content |-> last'.question],
                       [role |-> "assistant",
                        content |-> last'.resp.body.answer]>>
         IN /\ EndsWith(DurableTranscript(conversations', id), four)
            /\ id \in DOMAIN conversation_memory' =>
                   EndsWith(HistoryOfChat(
                                conversation_memory'[id].chat_history), four)]_vars

\* the in-memory half of C16 alone, which the handlers keep
InMemoryAppendsKept ==
    [][(/\ last.op = "followup" /\ last.resp.status = 200
        /\ last'.op = "followup" /\ last'.resp.status = 200
        /\ last'.comparison_id = last.comparison_id
        /\ last'.comparison_id \in DOMAIN conversation_memory') =>
         EndsWith(HistoryOfChat(
                      conversation_memory'[last'.comparison_id].chat_history),
                  <<[role |-> "user", content |-> last.question],
                    [role |-> "assistant", content |-> last.resp.body.answer],
                    [role |-> "user", content |-> last'.question],
                    [role |-> "assistant",
                     content |-> last'.resp.body.answer]>>)]_vars

----------------------------------------------------------------------------
(* Claims about the shares *)

\* the retrievals of share_id that were started have all been answered
NoRetrievalInFlight(share_id) == InFlight(share_id) = {}

\* C17: once the retrievals of a share that were started have all completed,
\* in whatever order their steps were taken, the stored views of the share
\* equal the number of retrievals answered with 200.
C17_ViewsCountRetrievals ==
    \A i \in 1..Len(shared_comparisons) :
        NoRetrievalInFlight(shared_comparisons[i].share_id) =>
            shared_comparisons[i].views =
                retrievals[shared_comparisons[i].share_id]

----------------------------------------------------------------------------
(* Claims about the control flow and the frame of /compare *)

\* s is an initial part of t
IsPrefix(s, t) ==
    /\ Len(s) <= Len(t)
    /\ \A k \in 1..Len(s) : s[k] = t[k]

\* the steps of /compare in the order the specification gives them
ControlFlow == <<"cache_read", "search", "llm", "cache_write", "session">>

\* the table holds a row with the key of the request that has not expired
HoldsLiveEntry(cache, t, category, items, user_preferences) ==
    \E i \in 1..Len(cache) :
        /\ cache[i].category = category
        /\ cache[i].items = normalize_items(items)
        /\ cache[i].user_preferences = normalize_prefs(user_preferences)
        /\ \A j \in 1..(i - 1) :
               ~(/\ cache[j].category = category
                 /\ cache[j].items = normalize_items(items)
                 /\ cache[j].user_preferences =
                        normalize_prefs(user_preferences))
        /\ cache[i].expires_at >= t

\* the table after holds a row that the table before did not hold
RowAdded(before, after) ==
    \E i \in 1..Len(after) :
        \A j \in 1..Len(before) : after[i] # before[j]

\* C21: the steps of a /compare request are an initial part of cache read,
\* search, LLM, cache write, session registration, in this order; a request
\* whose key the cache holds unexpired calls neither the search nor the LLM;
\* the cache is written only after the LLM gave a parsed, non-rejected
\* response, and exactly then a row is added; a session is registered only
\* after the cache write, and exactly then the fast tier gains a key.
C21_ControlFlow ==
    [][last'.op = "compare" =>
         LET tr == last'.trace
         IN /\ IsPrefix(tr, ControlFlow)
            /\ (HasEvent(tr, "cache_read") /\
                HoldsLiveEntry(comparison_cache, now, last'.category,
                               last'.items, last'.user_preferences)) =>
                   tr = <<"cache_read">>
            /\ HasEvent(tr, "cache_write") =>
                   /\ last'.llm_out \notin {None, Malformed}
                   /\ last'.llm_out.message \in {Null, ""}
            /\ HasEvent(tr, "cache_write") <=>
                   RowAdded(comparison_cache, comparison_cache')
            /\ HasEvent(tr, "session") <=>
                   DOMAIN conversation_memory' # DOMAIN conversation_memory
            /\ DOMAIN conversation_memory \subseteq
                   DOMAIN conversation_memory']_vars

\* a request that went through all five steps
C21_Witness ==
    /\ last.op = "compare"
    /\ last.trace = ControlFlow
    /\ last.resp.status = 200
    /\ last.resp.body.comparison_id \in DOMAIN conversation_memory
    /\ comparison_cache # <<>>

----------------------------------------------------------------------------
(* Claims about the sessions over time *)

\* C22: in each tier, the transcript of an id before a step is an initial
\* part of its transcript after the step; a successful follow-up extends the
\* in-memory transcript of its id by the question and then the answer, and
\* what it adds to the durable transcript is an initial part of the question
\* followed by the answer; no other step extends a transcript.
C22_AppendOnly ==
    [][\A id \in ComparisonIds :
         LET d == DurableTranscript(conversations, id)
             dNew == DurableTranscript(conversations', id)
             held == /\ id \in DOMAIN conversation_memory
                     /\ id \in DOMAIN conversation_memory'
             answered == /\ last'.op = "followup"
                         /\ last'.comparison_id = id
                         /\ last'.resp.status = 200
         IN /\ IsPrefix(d, dNew)
            /\ held => IsPrefix(conversation_memory[id].chat_history,
                                conversation_memory'[id].chat_history)
            /\ answered =>
                   /\ IsPrefix(SubSeq(dNew, Len(d) + 1, Len(dNew)),
                               <<[role |-> "user",
                                  content |-> last'.question],
                                 [role |-> "assistant",
                                  content |-> last'.resp.body.answer]>>)
                   /\ held =>
                          conversation_memory'[id].chat_history =
                              conversation_memory[id].chat_history
                                  \o <<[type |-> "human",
                                        content |-> last'.question],
                                       [type |-> "ai",
                                        content |->
                                            last'.resp.body.answer]>>
            /\ ~answered =>
                   /\ dNew = d
                   /\ held => conversation_memory'[id].chat_history =
                                  conversation_memory[id].chat_history]_vars

\* the second follow-up of a session that both tiers hold
C22_Witness ==
    /\ last.op = "followup"
    /\ last.resp.status = 200
    /\ last.comparison_id \in DOMAIN conversation_memory
    /\ Len(conversation_memory[last.comparison_id].chat_history) = 4
    /\ conversation_memory[last.comparison_id].chat_history[3].type = "human"
    /\ Len(DurableTranscript(conversations, last.comparison_id)) >= 1

\* the row that the step added to the cache
AddedRow(before, after) ==
    after[CHOOSE i \in 1..Len(after) :
              \A j \in 1..Len(before) : after[i] # before[j]]

\* the step registered a session, for the id it answered with
Registered ==
    /\ last'.op = "compare"
    /\ HasEvent(last'.trace, "session")

\* no step changes the payload, the items or the category of a session that
\* the fast tier holds before and after it, and a follow-up answered from the
\* fast tier reads them as the session holds them
PayloadKept ==
    /\ \A id \in DOMAIN conversation_memory \cap DOMAIN conversation_memory' :
           /\ conversation_memory'[id].original_comparison =
                  conversation_memory[id].original_comparison
           /\ conversation_memory'[id].items = conversation_memory[id].items
           /\ conversation_memory'[id].category =
                  conversation_memory[id].category
    /\ (/\ last'.op = "followup"
        /\ last'.comparison_id \in DOMAIN conversation_memory) =>
           LET session == conversation_memory[last'.comparison_id]
           IN /\ last'.context.original_comparison =
                     session.original_comparison
              /\ last'.context.items = session.items
              /\ last'.context.category = session.category

\* C23 as stated: the payload of a session is, from its registration on, the
\* payload that was written to the cache, and no later step adds or changes a
\* field of it, of the items or of the category; a follow-up reads that
\* payload.
C23_PayloadAsCached ==
    [][/\ Registered =>
              conversation_memory'[last'.resp.body.comparison_id]
                      .original_comparison =
                  AddedRow(comparison_cache, comparison_cache').result
       /\ PayloadKept]_vars

\* C23 as amended: the payload of a session is, from the end of the /compare
\* request that registered it, the payload of that request's response: the
\* payload written to the cache with comparison_id, items and category set
\* on it; no later step adds or changes a field of it, of the items or of the
\* category; a follow-up reads that payload.
C23_PayloadAsAnswered ==
    [][/\ Registered =>
              LET id == last'.resp.body.comparison_id
                  cached == AddedRow(comparison_cache,
                                     comparison_cache').result
                  payload == conversation_memory'[id].original_comparison
              IN /\ payload = last'.resp.body
                 /\ DOMAIN payload =
                        DOMAIN cached \cup {"comparison_id", "items",
                                            "category"}
                 /\ \A k \in DOMAIN cached : payload[k] = cached[k]
                 /\ payload.comparison_id = id
                 /\ payload.items = last'.items
                 /\ payload.category = last'.category
                 /\ conversation_memory'[id].items = last'.items
                 /\ conversation_memory'[id].category = last'.category
       /\ PayloadKept]_vars

\* the second follow-up of a session reads a payload that carries the
\* comparison_id, which no row of the cache carries
C23_Witness ==
    /\ last.op = "followup"
    /\ last.resp.status = 200
    /\ last.comparison_id \in DOMAIN conversation_memory
    /\ Len(conversation_memory[last.comparison_id].chat_history) = 4
    /\ last.context.original_comparison =
           conversation_memory[last.comparison_id].original_comparison
    /\ last.context.original_comparison.comparison_id = last.comparison_id
    /\ \A i \in 1..Len(comparison_cache) :
           "comparison_id" \notin DOMAIN comparison_cache[i].result

----------------------------------------------------------------------------
(* Claims about the saved history *)

\* C30: a GET /history/{user_id} that follows at once a successful
\* /save-comparison of the same user_id includes the saved entry, whether or
\* not the user_id had a user record before the save.
C30_HistoryRoundTrip ==
    (/\ last.op = "history_of_user"
     /\ last.after.op = "save"
     /\ last.after.resp.status = 200
     /\ last.after.user_id = last.user_id) =>
        \E i \in 1..Len(last.resp.body.history) :
            last.resp.body.history[i] = last.after.resp.body.entry

\* the same for a user_id that has a user record at the time of the save,
\* which the handlers keep
SavedForKnownUserListed ==
    (/\ last.op = "history_of_user"
     /\ last.after.op = "save"
     /\ last.after.resp.status = 200
     /\ last.after.user_id = last.user_id
     /\ last.user_id \in users
     /\ last.user_id \notin InventedUserIds) =>
        \E i \in 1..Len(last.resp.body.history) :
            last.resp.body.history[i] = last.after.resp.body.entry

----------------------------------------------------------------------------
(* Claims about the fast tier *)

\* C24: within the lifetime of a process, every key of the in-memory session
\* map stays a key: no step of a compare, follow-up, follow-up history,
\* save, history, delete-history or share request removes a session.
C24_NoEviction ==
    [][DOMAIN conversation_memory \subseteq DOMAIN conversation_memory']_vars

\* a delete-history request that names the id of a held session, which is
\* held afterwards
C24_Witness ==
    /\ last.op = "delete_history_item"
    /\ last.comparison_id \in DOMAIN conversation_memory
    /\ comparisons # <<>>

\* C25: the comparison_id of a successful /compare response, from a cache
\* miss or from a cache hit, is a key of the in-memory session map, and an
\* /ask-followup with that id that comes next does not fail with not-found.
C25_ReturnedIdHasSession ==
    [][(/\ last.op = "compare"
        /\ last.resp.status = 200
        /\ "comparison_id" \in DOMAIN last.resp.body) =>
         /\ last.resp.body.comparison_id \in DOMAIN conversation_memory
         /\ (/\ last'.op = "followup"
             /\ last'.comparison_id = last.resp.body.comparison_id) =>
                last'.resp.status # 404]_vars

\* the same for the responses that come from a cache miss, which the
\* handlers keep
MissIdHasSession ==
    [][(/\ last.op = "compare"
        /\ last.resp.status = 200
        /\ "comparison_id" \in DOMAIN last.resp.body
        /\ last.trace # <<"cache_read">>) =>
         /\ last.resp.body.comparison_id \in DOMAIN conversation_memory
         /\ (/\ last'.op = "followup"
             /\ last'.comparison_id = last.resp.body.comparison_id) =>
                last'.resp.status # 404]_vars

----------------------------------------------------------------------------
(* Claims about the cache as /compare uses it *)

\* the preferences of a row's key have no non-empty field
KeyWithoutPreference(p) ==
    \/ p = EmptyDict
    \/ /\ p.priorities \in {NullList, <<>>}
       /\ p.budget \in {Null, ""}
       /\ p.use_case \in {Null, ""}

\* C26: a /compare request without a non-empty preference field that is
\* served from the cache gets personalized_winner and winner_reason null,
\* and the row that serves it was stored under preferences without a
\* non-empty field.
C26_NoWinnerFromCache ==
    [][(/\ last'.op = "compare"
        /\ last'.trace = <<"cache_read">>
        /\ NoPreferenceSupplied(last'.user_preferences)) =>
         LET i == CHOOSE i \in 1..Len(comparison_cache) :
                      /\ CacheMatches(comparison_cache[i], last'.category,
                             normalize_items(last'.items),
                             normalize_prefs(last'.user_preferences))
                      /\ comparison_cache[i].result =
                             [k \in DOMAIN comparison_cache[i].result |->
                                 last'.resp.body[k]]
         IN /\ last'.resp.status = 200
            /\ last'.resp.body.personalized_winner = Null
            /\ last'.resp.body.winner_reason = Null
            /\ KeyWithoutPreference(comparison_cache[i].user_preferences)
            /\ comparison_cache[i].result.personalized_winner = Null]_vars

\* a request whose preferences object has every field null is served from
\* the cache a row for which the LLM had named a winner
C26_Witness ==
    /\ last.op = "compare"
    /\ last.trace = <<"cache_read">>
    /\ last.user_preferences = NoPrefs
    /\ last.resp.body.personalized_winner = Null
    /\ \E i \in 1..Len(comparison_cache) :
           /\ comparison_cache[i].user_preferences = NoPrefs
           /\ comparison_cache[i].result.introduction = "intro"

\* C27: with /compare requests handled one at a time, and sweeps and clock
\* advances between them, no two rows of the cache have the same category,
\* normalized items and normalized preferences.
C27_OneRowPerKey ==
    \A i, j \in 1..Len(comparison_cache) :
        (/\ comparison_cache[i].category = comparison_cache[j].category
         /\ comparison_cache[i].items = comparison_cache[j].items
         /\ comparison_cache[i].user_preferences =
                comparison_cache[j].user_preferences) => i = j

\* a request stored a row next to an expired row of the same category and
\* items and of other preferences
C27_Witness ==
    /\ last.op = "compare"
    /\ HasEvent(last.trace, "cache_write")
    /\ Len(comparison_cache) = 2
    /\ comparison_cache[1].category = comparison_cache[2].category
    /\ comparison_cache[1].items = comparison_cache[2].items
    /\ comparison_cache[1].user_preferences #
           comparison_cache[2].user_preferences
    /\ \E i \in 1..2 : comparison_cache[i].expires_at < now

\* every row of the table after is a row of the table before
NoRowAdded(before, after) == ~RowAdded(before, after)

\* C28: a /compare request that ends in a rejection by an input check, in a
\* rejection by the LLM or in a failure adds no row to the cache and no
\* session to the fast tier, and changes no session; a request rejected by
\* an input check makes no call at all and leaves the cache as it was,
\* expired rows included.
C28_RejectionFrame ==
    [][last'.op = "compare" =>
         /\ (RejectedByValidation' \/ RejectedByLlm'
                 \/ last'.resp.status # 200) =>
                /\ NoRowAdded(comparison_cache, comparison_cache')
                /\ Len(comparison_cache') <= Len(comparison_cache)
                /\ conversation_memory' = conversation_memory
                /\ nextId' = nextId
         /\ RejectedByValidation' =>
                /\ last'.trace = <<>>
                /\ comparison_cache' = comparison_cache]_vars

\* a request failed on a malformed LLM response after another had succeeded:
\* the row and the session of the first are all there is
C28_Witness ==
    /\ last.op = "compare"
    /\ last.llm_out = Malformed
    /\ last.resp.status = 500
    /\ Len(comparison_cache) = 1
    /\ DOMAIN conversation_memory = {1}

----------------------------------------------------------------------------
(* Claims about /compare requests under way together *)

\* the requests of workers v and w have the same category, normalized items
\* and normalized preferences
SameKey(v, w) ==
    /\ compare_requests[v].category = compare_requests[w].category
    /\ normalize_items(compare_requests[v].items) =
           normalize_items(compare_requests[w].items)
    /\ normalize_prefs(compare_requests[v].user_preferences) =
           normalize_prefs(compare_requests[w].user_preferences)

\* C29: of two /compare requests of one key that are under way together
\* after both missed the cache, at most one has invoked the LLM, and the
\* cache never holds two rows of one key.
C29_OneLlmCallPerKey ==
    /\ \A v, w \in Workers :
           (/\ v # w
            /\ compare_requests[v].pc = "answered"
            /\ compare_requests[w].pc = "answered") => ~SameKey(v, w)
    /\ \A i, j \in 1..Len(comparison_cache) :
           (/\ i # j
            /\ comparison_cache[i].category = comparison_cache[j].category
            /\ comparison_cache[i].items = comparison_cache[j].items)
               => comparison_cache[i].user_preferences #
                      comparison_cache[j].user_preferences

\* two rows of one key, written by two requests that were under way together
TwoRowsOfOneKey ==
    \E i, j \in 1..Len(comparison_cache) :
        /\ i # j
        /\ comparison_cache[i].category = comparison_cache[j].category
        /\ comparison_cache[i].items = comparison_cache[j].items
        /\ comparison_cache[i].user_preferences =
               comparison_cache[j].user_preferences

============================================================================
